---- MODULE Spec2Model ----
(***************************************************************************)
(* Wind-sensor ingestion (full_code.py): the polling loop, the outage      *)
(* tracker (check_sensor / update_blank), the raw partition files and the  *)
(* day rollover; the aggregation loop (Postprocess.py) and the display     *)
(* loop with its retrying reader get_data (Mainpage.py), which meet the    *)
(* ingestion only through the partition files.                             *)
(*                                                                         *)
(* Time is an integer number of clock ticks; TicksPerSec ticks make one    *)
(* second, so datetime.now() keeps a sub-second part and strftime /        *)
(* int(total_seconds()) truncate it as the code does.  Second 0 is         *)
(* 00:00:00 of day 0; a timestamp string "%Y-%m-%d %H:%M:%S" is modelled   *)
(* by its whole second, a date by its day number.                          *)
(***************************************************************************)
EXTENDS Integers, Sequences, FiniteSets, TLC

\* ---------------------------------------------------------------- bounds
TicksPerSec == 2     \* clock resolution: ticks per second
Lead == 1            \* earliest program start, in seconds before midnight
Horizon == 2         \* polling is followed until this many seconds after midnight
MaxRows == 2         \* seconds either side of midnight a partition may hold samples for
MaxRetry == 5        \* largest max_retry get_data is called with on its own
MaxCycles == 2       \* completed aggregation cycles are remembered up to this number
Extra == 2           \* rows a raw series holds beyond one full window
HoleLen == 2         \* placeholder rows of an earlier, resolved outage in a raw series
OutageSec == 125     \* seconds the sensor has been silent when the cycles are looked at

\* ------------------------------------------------------ program constants
SecPerDay == 86400   \* one calendar date
HourStart == 82800   \* ' 23:00:00' as seconds of the day
DayEnd == 86399      \* ' 23:59:59' as seconds of the day
ReadTimeout == 1     \* serial timeout, seconds
NaN == 0 - 1000000   \* np.nan: an absent measured value
SecPerMin == 60      \* resample('1min')
DefaultMaxRetry == 20  \* get_data(path, max_retry = 20, delay = 10)
Scale == 10000       \* .round(4): aggregated values are kept in units of 0.0001
Window3sec == 3      \* rolling(window = 3)
Window10min == 600   \* window = 600
Window1hour == 3600  \* window = 3600
Noon == 43200        \* ' 12:00:00' as seconds of the day

Days == 0 .. 1
Midnight == SecPerDay * TicksPerSec     \* first tick of day 1
EndTick == (SecPerDay + Horizon) * TicksPerSec

\* ------------------------------------------------------------ time helpers
\* strftime("%Y-%m-%d %H:%M:%S") / str(ts).split(".")[0]: drop the sub-second part
FmtSec(t) == t \div TicksPerSec

\* the calendar date of a whole-second timestamp
DateOfSec(s) == s \div SecPerDay

\* datetime.date.today() when the clock shows tick t
Today(t) == DateOfSec(FmtSec(t))

\* ------------------------------------------------------------------ frames
\* A frame is the sequence of its comma-separated fields.  A field is text
\* of one of three kinds: an integer literal, a decimal literal, other text.
IntField(n) == [kind |-> "int", v |-> n]
DecField(n) == [kind |-> "dec", v |-> n]
TxtField == [kind |-> "txt", v |-> 0]

Dirs == {90, 180}
Speeds == {5}

\* "$IIMWV,<dir>,R,<speed>,M,A*CC"
GoodFrame(d, s) == <<TxtField, IntField(d), TxtField, DecField(s), TxtField, TxtField>>

GoodFrames == {GoodFrame(d, s) : d \in Dirs, s \in Speeds}

BadFrames ==
    { <<TxtField>>,                                                      \* too few fields
      <<TxtField, IntField(90), TxtField>>,                              \* speed field missing
      <<TxtField, TxtField, TxtField, DecField(5), TxtField, TxtField>>, \* direction not numeric
      <<TxtField, DecField(90), TxtField, DecField(5), TxtField, TxtField>>, \* direction not an integer
      <<TxtField, IntField(90), TxtField, TxtField, TxtField, TxtField>> }   \* speed not numeric

NoData == << >>      \* readline() timed out: b''

\* int(x) succeeds only on an integer literal, float(x) on any numeric literal
IntOk(f) == f.kind = "int"
FloatOk(f) == f.kind \in {"int", "dec"}

\* data_split[i] with Python's 0-based index
Field(data_split, i) == data_split[i + 1]
HasField(data_split, i) == i + 1 <= Len(data_split)

\* math.cos / math.sin of math.radians(wd), rounded to 4 places, on the
\* cardinal directions (the only ones whose components are whole numbers)
CosDeg(wd) == CASE wd = 0 -> 1 [] wd = 90 -> 0 [] wd = 180 -> 0 - 1 [] wd = 270 -> 0
SinDeg(wd) == CASE wd = 0 -> 0 [] wd = 90 -> 1 [] wd = 180 -> 0 [] wd = 270 -> 0 - 1

u_comp(wd, ws) == (0 - ws) * CosDeg(wd)
v_comp(wd, ws) == (0 - ws) * SinDeg(wd)

\* ------------------------------------------------------------------- files
Header == [hdr |-> TRUE, DateTime |-> 0, dir |-> NaN, spd |-> NaN, U |-> NaN, V |-> NaN]
Row(ts, d, s, u, v) == [hdr |-> FALSE, DateTime |-> ts, dir |-> d, spd |-> s, U |-> u, V |-> v]

NoFile == [exists |-> FALSE, lines |-> << >>]
FileOf(ls) == [exists |-> TRUE, lines |-> ls]

\* pd.read_csv: the first line names the columns, the rest are the rows
CanRead(f) == f.exists /\ f.lines # << >>
ReadCsv(f) == Tail(f.lines)


\* to_csv(path, mode='a') with header = True: every append writes the header
AppendCsv_AlwaysHeader(f, header, rows) == FileOf(f.lines \o <<header>> \o rows)

\* to_csv(path, mode='a', header = not os.path.exists(path))
AppendCsv(f, header, rows) ==
    IF f.exists THEN FileOf(f.lines \o rows) ELSE FileOf(<<header>> \o rows)

\* to_csv(path): truncate, then write header and rows
WriteCsv(header, rows) == FileOf(<<header>> \o rows)

\* the outage log (sensor status file)
SensorHeader == [hdr |-> TRUE, off |-> 0, on |-> 0, duration |-> 0]
OutageRecord(off, on, dur) == [hdr |-> FALSE, off |-> off, on |-> on, duration |-> dur]

\* the aggregate partition (mean_data_<date>.txt): one line per minute
MeanHeader == [hdr |-> TRUE, DateTime |-> 0]
MeanRow(ts) == [hdr |-> FALSE, DateTime |-> ts]
\* a line with more fields than the header: read_csv raises ParserError on it
Garbled == [hdr |-> FALSE, DateTime |-> 0 - 1]

\* what pd.read_csv(path, sep = '\t') does on file f
ReadOutcome_ParserErrorAsEmpty(f) ==
    IF ~f.exists THEN "FileNotFoundError"
    ELSE IF f.lines = << >> THEN "EmptyDataError"
    ELSE IF \E i \in 1 .. Len(f.lines) : f.lines[i] = Garbled THEN "EmptyDataError"
    ELSE "DataFrame"

ReadOutcome(f) ==
    IF ~f.exists THEN "FileNotFoundError"
    ELSE IF f.lines = << >> THEN "EmptyDataError"
    ELSE IF \E i \in 1 .. Len(f.lines) : f.lines[i] = Garbled THEN "ParserError"
    ELSE "DataFrame"

\* the values get_data hands back: a frame of rows, or None when the loop ends
DataFrame(rows) == [kind |-> "DataFrame", rows |-> rows]
None == [kind |-> "None", rows |-> << >>]

\* ------------------------------------------------------------------- state
VARIABLES
    now,                  \* the wall clock, in ticks
    lastFrameAt,          \* tick at which the sensor delivered its last frame, -1 when it is silent
    pc,                   \* position of the ingestion loop
    program_start,
    current_date, previous_date,
    raw_data_path, sensor_status_path,   \* the dates the two paths are named for
    raw_data,             \* result of the last ser.readline()
    sensor_status, sensor_off_timestamp, sensor_on_timestamp, duration,
    sensor_timestampoff, sensor_off_count,
    time_list, wind_direction, wind_speed, u_comp_list, v_comp_list,
    rawFiles,             \* "Pre-Processed data/raw_wind_data_<date>.txt"
    sensorFiles,          \* "Sensor Status/sensor_status_<date>.txt"
    new_day_df,           \* full_code.py: the frame the rollover is writing out
    apc,                  \* Postprocess.py: position of the aggregation loop
    agg_current_date, agg_previous_date,
    raw_path, mean_path,  \* the dates the two paths of Postprocess.py are named for
    df,                   \* Postprocess.py: the rows read from the raw partition
    meanFiles,            \* "Processed data V4/mean_data_<date>.txt"
    cycles,               \* Postprocess.py: what the last passes of the loop read and wrote (history, the latest MaxCycles)
    dpc,                  \* Mainpage.py: position of the display loop / of get_data
    disp_current_date, disp_previous_date,
    path,                 \* get_data: the date the file to read is named for
    attempt, max_retry,   \* get_data: its counter and its limit
    mean_df               \* Mainpage.py: what get_data returned

tracker == <<sensor_status, sensor_off_timestamp, sensor_on_timestamp, duration,
             sensor_timestampoff, sensor_off_count>>
buffers == <<time_list, wind_direction, wind_speed, u_comp_list, v_comp_list>>
dates == <<current_date, previous_date, raw_data_path, sensor_status_path>>
aggregation == <<apc, agg_current_date, agg_previous_date, raw_path, mean_path, df, meanFiles, cycles>>
display == <<dpc, disp_current_date, disp_previous_date, path, attempt, max_retry, mean_df>>
others == <<new_day_df, aggregation, display>>
vars == <<now, lastFrameAt, pc, program_start, dates, raw_data, tracker, buffers,
          rawFiles, sensorFiles, others>>

NoPath == 0 - 1      \* raw_data_path before its first assignment

\* the module-level globals check_sensor, update_blank and update_data work on
Globals ==
    [sensor_status |-> sensor_status,
     sensor_off_timestamp |-> sensor_off_timestamp,
     sensor_on_timestamp |-> sensor_on_timestamp,
     duration |-> duration,
     sensor_timestampoff |-> sensor_timestampoff,
     sensor_off_count |-> sensor_off_count,
     time_list |-> time_list,
     wind_direction |-> wind_direction,
     wind_speed |-> wind_speed,
     u_comp_list |-> u_comp_list,
     v_comp_list |-> v_comp_list]

\* the globals as they stand in an initial state
SetInitially(g) ==
    /\ sensor_status = g.sensor_status
    /\ sensor_off_timestamp = g.sensor_off_timestamp
    /\ sensor_on_timestamp = g.sensor_on_timestamp
    /\ duration = g.duration
    /\ sensor_timestampoff = g.sensor_timestampoff
    /\ sensor_off_count = g.sensor_off_count
    /\ time_list = g.time_list
    /\ wind_direction = g.wind_direction
    /\ wind_speed = g.wind_speed
    /\ u_comp_list = g.u_comp_list
    /\ v_comp_list = g.v_comp_list

SetGlobals(g) ==
    /\ sensor_status' = g.sensor_status
    /\ sensor_off_timestamp' = g.sensor_off_timestamp
    /\ sensor_on_timestamp' = g.sensor_on_timestamp
    /\ duration' = g.duration
    /\ sensor_timestampoff' = g.sensor_timestampoff
    /\ sensor_off_count' = g.sensor_off_count
    /\ time_list' = g.time_list
    /\ wind_direction' = g.wind_direction
    /\ wind_speed' = g.wind_speed
    /\ u_comp_list' = g.u_comp_list
    /\ v_comp_list' = g.v_comp_list

\* ---------------------------------------------------------- outage tracker
\* update_blank(timestamp): one placeholder into the five lists
update_blank(g, timestamp) ==
    [g EXCEPT !.time_list = Append(@, FmtSec(timestamp)),
              !.wind_direction = Append(@, NaN),
              !.wind_speed = Append(@, NaN),
              !.u_comp_list = Append(@, NaN),
              !.v_comp_list = Append(@, NaN)]

\* BlankLoop counting down: for i in reversed(range(n))
BlankLoop_Backwards(g, i, n) ==
    LET blanks == [k \in 1 .. n - i |-> NaN]
        stamps == [k \in 1 .. n - i |-> FmtSec(g.sensor_timestampoff + (n - k) * TicksPerSec)]
    IN IF i >= n THEN g
       ELSE [g EXCEPT !.time_list = @ \o stamps,
                      !.wind_direction = @ \o blanks,
                      !.wind_speed = @ \o blanks,
                      !.u_comp_list = @ \o blanks,
                      !.v_comp_list = @ \o blanks]

\* for i in range(n): update_blank(sensor_timestampoff + timedelta(seconds = i)),
\* iterations i .. n - 1: each appends one stamp and four absent values
BlankLoop(g, i, n) ==
    LET blanks == [k \in 1 .. n - i |-> NaN]
        stamps == [k \in 1 .. n - i |-> FmtSec(g.sensor_timestampoff + (i + k - 1) * TicksPerSec)]
    IN IF i >= n THEN g
       ELSE [g EXCEPT !.time_list = @ \o stamps,
                      !.wind_direction = @ \o blanks,
                      !.wind_speed = @ \o blanks,
                      !.u_comp_list = @ \o blanks,
                      !.v_comp_list = @ \o blanks]

\* int(duration_calc.total_seconds())
WholeSeconds(duration_calc) == duration_calc \div TicksPerSec

\* SensorRows with the two timestamp columns exchanged
SensorRows_Swapped(g) ==
    [i \in 1 .. Len(g.sensor_off_timestamp) |->
        OutageRecord(g.sensor_on_timestamp[i], g.sensor_off_timestamp[i], g.duration[i])]

\* the rows of df_sensor: one per entry of the three lists
SensorRows(g) ==
    [i \in 1 .. Len(g.sensor_off_timestamp) |->
        OutageRecord(g.sensor_off_timestamp[i], g.sensor_on_timestamp[i], g.duration[i])]

\* SensorBackOn with lines 108-110 left out: the three lists are not cleared
SensorBackOn_KeepsLists(sensor_file, t, g) ==
    LET duration_calc == t - g.sensor_timestampoff
        g1 == [g EXCEPT !.sensor_on_timestamp = Append(@, FmtSec(t)),
                        !.duration = Append(@, duration_calc)]
        g2 == IF g1.sensor_off_timestamp # << >>
              THEN BlankLoop(g1, 0, WholeSeconds(duration_calc))
              ELSE g1
    IN [file |-> AppendCsv(sensor_file, SensorHeader, SensorRows(g1)),
        g |-> [g2 EXCEPT !.sensor_status = TRUE]]

\* check_sensor, data received while sensor_status == False (lines 82-113)
SensorBackOn(sensor_file, t, g) ==
    LET duration_calc == t - g.sensor_timestampoff
        g1 == [g EXCEPT !.sensor_on_timestamp = Append(@, FmtSec(t)),
                        !.duration = Append(@, duration_calc)]
        g2 == IF g1.sensor_off_timestamp # << >>
              THEN BlankLoop(g1, 0, WholeSeconds(duration_calc))
              ELSE g1
    IN [file |-> AppendCsv(sensor_file, SensorHeader, SensorRows(g1)),
        g |-> [g2 EXCEPT !.sensor_off_timestamp = << >>,
                         !.sensor_on_timestamp = << >>,
                         !.duration = << >>,
                         !.sensor_status = TRUE]]

\* SensorWentOff with line 127 left out: sensor_status stays True
SensorWentOff_StaysOn(t, g) ==
    LET g1 == [g EXCEPT !.sensor_timestampoff = t,
                        !.sensor_off_timestamp = Append(@, FmtSec(t)),
                        !.sensor_off_count = @ + 1]
    IN update_blank(g1, t)

\* check_sensor, no data while sensor_status == True (lines 119-127)
SensorWentOff(t, g) ==
    LET g1 == [g EXCEPT !.sensor_timestampoff = t,
                        !.sensor_off_timestamp = Append(@, FmtSec(t)),
                        !.sensor_off_count = @ + 1]
    IN [update_blank(g1, t) EXCEPT !.sensor_status = FALSE]

\* check_sensor without the test of line 119: every poll without data is
\* handled as a new outage
check_sensor_EveryMiss(data, sensor_file, t, g) ==
    IF data # NoData
    THEN IF g.sensor_status = FALSE
         THEN [ret |-> TRUE] @@ SensorBackOn(sensor_file, t, g)
         ELSE [ret |-> TRUE, file |-> sensor_file, g |-> g]
    ELSE [ret |-> FALSE, file |-> sensor_file, g |-> SensorWentOff(t, g)]

\* check_sensor(data, sensor_path) called at tick t
check_sensor(data, sensor_file, t, g) ==
    IF data # NoData
    THEN IF g.sensor_status = FALSE
         THEN [ret |-> TRUE] @@ SensorBackOn(sensor_file, t, g)
         ELSE [ret |-> TRUE, file |-> sensor_file, g |-> g]
    ELSE IF g.sensor_status = TRUE
         THEN [ret |-> FALSE, file |-> sensor_file, g |-> SensorWentOff(t, g)]
         ELSE [ret |-> FALSE, file |-> sensor_file, g |-> g]


\* -------------------------------------------------------- decode and flush
\* Decode reading the speed from data_split[1], the direction field
Decode_SpeedFromField1(data_split, t, g) ==
    IF ~HasField(data_split, 1) \/ ~IntOk(Field(data_split, 1))
    THEN [ok |-> FALSE, g |-> g]
    ELSE LET wd == Field(data_split, 1).v
             g1 == [g EXCEPT !.wind_direction = Append(@, wd)]
         IN IF ~HasField(data_split, 1) \/ ~FloatOk(Field(data_split, 1))
            THEN [ok |-> FALSE, g |-> g1]
            ELSE LET ws == Field(data_split, 1).v
                 IN [ok |-> TRUE,
                     g |-> [g1 EXCEPT !.wind_speed = Append(@, ws),
                                      !.u_comp_list = Append(@, u_comp(wd, ws)),
                                      !.v_comp_list = Append(@, v_comp(wd, ws)),
                                      !.time_list = Append(@, FmtSec(t))]]

\* Lines 324-344: split the frame, append direction, speed, U, V and the
\* timestamp of receipt.  An int()/float() or index failure raises at that
\* line: the appends before it stay, ok is FALSE.
Decode(data_split, t, g) ==
    IF ~HasField(data_split, 1) \/ ~IntOk(Field(data_split, 1))
    THEN [ok |-> FALSE, g |-> g]
    ELSE LET wd == Field(data_split, 1).v
             g1 == [g EXCEPT !.wind_direction = Append(@, wd)]
         IN IF ~HasField(data_split, 3) \/ ~FloatOk(Field(data_split, 3))
            THEN [ok |-> FALSE, g |-> g1]
            ELSE LET ws == Field(data_split, 3).v
                 IN [ok |-> TRUE,
                     g |-> [g1 EXCEPT !.wind_speed = Append(@, ws),
                                      !.u_comp_list = Append(@, u_comp(wd, ws)),
                                      !.v_comp_list = Append(@, v_comp(wd, ws)),
                                      !.time_list = Append(@, FmtSec(t))]]

\* pd.DataFrame({...}) of the five lists raises unless they have one length
SameLength(g) ==
    /\ Len(g.wind_direction) = Len(g.time_list)
    /\ Len(g.wind_speed) = Len(g.time_list)
    /\ Len(g.u_comp_list) = Len(g.time_list)
    /\ Len(g.v_comp_list) = Len(g.time_list)

\* the rows of df_rd
BufferRows(g) ==
    [i \in 1 .. Len(g.time_list) |->
        Row(g.time_list[i], g.wind_direction[i], g.wind_speed[i],
            g.u_comp_list[i], g.v_comp_list[i])]

\* update_data(data_path): append the buffered rows, clear the five lists
update_data(f, g) ==
    [file |-> AppendCsv(f, Header, BufferRows(g)),
     g |-> [g EXCEPT !.time_list = << >>,
                     !.wind_direction = << >>,
                     !.wind_speed = << >>,
                     !.u_comp_list = << >>,
                     !.v_comp_list = << >>]]

\* create_csv: write the header line into a file that does not exist
create_csv(f, header) == IF f.exists THEN f ELSE FileOf(<<header>>)

\* ---------------------------------------------------------------- rollover
\* pday_df.loc[(DateTime >= prev 23:00:00) & (DateTime <= prev 23:59:59)]
InLastHour(ts, prev) ==
    /\ ts >= prev * SecPerDay + HourStart
    /\ ts <= prev * SecPerDay + DayEnd

LastHour(rows, prev) == SelectSeq(rows, LAMBDA r : InLastHour(r.DateTime, prev))

\* Carry with the two frames concatenated the other way round
Carry_NewFirst(prev_file, new_file, prev) ==
    WriteCsv(Header, ReadCsv(new_file) \o LastHour(ReadCsv(prev_file), prev))

\* pd.concat([pday_data, new_day_df]).to_csv(raw_data_path)
Carry(prev_file, new_file, prev) ==
    WriteCsv(Header, LastHour(ReadCsv(prev_file), prev) \o ReadCsv(new_file))

\* --------------------------------------------------------------- the start
\* a partition left by an earlier run of the program on day 0
PriorRun == FileOf(<<Header, Row(HourStart - 1, 90, 5, 0, 0 - 5), Row(HourStart, 90, 5, 0, 0 - 5)>>)

\* Postprocess.py has not been started
AggregationOff ==
    /\ apc = "off"
    /\ agg_current_date = 0
    /\ agg_previous_date = 0
    /\ raw_path = NoPath
    /\ mean_path = NoPath
    /\ df = << >>
    /\ meanFiles = [d \in Days |-> NoFile]
    /\ cycles = << >>

\* Mainpage.py has not been started
DisplayOff ==
    /\ dpc = "off"
    /\ disp_current_date = 0
    /\ disp_previous_date = 0
    /\ path = NoPath
    /\ attempt = 0
    /\ max_retry = 0
    /\ mean_df = None

StartTicks == { Midnight - k : k \in 1 .. Lead * TicksPerSec }

Init ==
    /\ now \in StartTicks
    /\ program_start = FmtSec(now)
    /\ lastFrameAt = 0 - 1
    /\ pc = "date"
    /\ previous_date = Today(now)
    /\ current_date = Today(now)
    /\ raw_data_path = NoPath
    /\ sensor_status_path = NoPath
    /\ raw_data = NoData
    /\ sensor_status = TRUE
    /\ sensor_off_timestamp = << >>
    /\ sensor_on_timestamp = << >>
    /\ duration = << >>
    /\ sensor_timestampoff = 0
    /\ sensor_off_count = 0
    /\ time_list = << >>
    /\ wind_direction = << >>
    /\ wind_speed = << >>
    /\ u_comp_list = << >>
    /\ v_comp_list = << >>
    /\ \E f0 \in {NoFile, PriorRun} : rawFiles = [d \in Days |-> IF d = 0 THEN f0 ELSE NoFile]
    /\ sensorFiles = [d \in Days |-> NoFile]
    /\ new_day_df = << >>
    /\ AggregationOff
    /\ DisplayOff

\* ------------------------------------------------------------ the main loop
Running == pc \in {"date", "path", "roll", "read"}

\* line 293: current_date = datetime.date.today()
ReadDate ==
    /\ pc = "date"
    /\ current_date' = Today(now)
    /\ pc' = "path"
    /\ UNCHANGED <<now, lastFrameAt, program_start, previous_date, raw_data_path,
                   sensor_status_path, raw_data, tracker, buffers, rawFiles, sensorFiles>>
    /\ UNCHANGED others

\* lines 294-297: both paths from generate_filename (a second read of the
\* date), then create_csv
MakePaths ==
    /\ pc = "path"
    /\ raw_data_path' = Today(now)
    /\ sensor_status_path' = Today(now)
    /\ rawFiles' = [rawFiles EXCEPT ![Today(now)] = create_csv(@, Header)]
    /\ sensorFiles' = [sensorFiles EXCEPT ![Today(now)] = create_csv(@, SensorHeader)]
    /\ pc' = "roll"
    /\ UNCHANGED <<now, lastFrameAt, program_start, current_date, previous_date,
                   raw_data, tracker, buffers>>
    /\ UNCHANGED others

\* midnight falls between two statements at the top of the loop: before
\* line 293 (on the first pass, after line 287) or between lines 293 and 294
MidnightPasses ==
    /\ pc \in {"date", "path"}
    /\ now + 1 = Midnight
    /\ now' = now + 1
    /\ UNCHANGED <<lastFrameAt, pc, program_start, dates, raw_data, tracker, buffers,
                   rawFiles, sensorFiles>>
    /\ UNCHANGED others

\* Rollover without line 319: previous_date is left behind
Rollover_KeepsPreviousDate ==
    /\ pc = "roll"
    /\ current_date # previous_date
    /\ IF CanRead(rawFiles[previous_date]) /\ CanRead(rawFiles[raw_data_path])
       THEN /\ rawFiles' = [rawFiles EXCEPT ![raw_data_path] =
                                Carry(rawFiles[previous_date], @, previous_date)]
            /\ previous_date' = previous_date
            /\ pc' = "read"
       ELSE /\ pc' = "crashed"
            /\ UNCHANGED <<rawFiles, previous_date>>
    /\ UNCHANGED <<now, lastFrameAt, program_start, current_date, raw_data_path,
                   sensor_status_path, raw_data, tracker, buffers, sensorFiles>>
    /\ UNCHANGED others

\* lines 300-319, the date has changed: carry the last hour over.  read_csv
\* raises on a missing or empty file and nothing catches it.
Rollover ==
    /\ pc = "roll"
    /\ current_date # previous_date
    /\ IF CanRead(rawFiles[previous_date]) /\ CanRead(rawFiles[raw_data_path])
       THEN /\ rawFiles' = [rawFiles EXCEPT ![raw_data_path] =
                                Carry(rawFiles[previous_date], @, previous_date)]
            /\ previous_date' = current_date
            /\ pc' = "read"
       ELSE /\ pc' = "crashed"
            /\ UNCHANGED <<rawFiles, previous_date>>
    /\ UNCHANGED <<now, lastFrameAt, program_start, current_date, raw_data_path,
                   sensor_status_path, raw_data, tracker, buffers, sensorFiles>>
    /\ UNCHANGED others

\* line 300, the date has not changed
NoRollover ==
    /\ pc = "roll"
    /\ current_date = previous_date
    /\ pc' = "read"
    /\ UNCHANGED <<now, lastFrameAt, program_start, dates, raw_data, tracker, buffers,
                   rawFiles, sensorFiles>>
    /\ UNCHANGED others

\* When the next frame can arrive: one cadence (1 Hz) after the last one
\* while the sensor is emitting, at any tick within the read timeout when it
\* starts or comes back.
Arrivals ==
    IF lastFrameAt >= 0
    THEN {lastFrameAt + TicksPerSec}
    ELSE now + 1 .. now + ReadTimeout * TicksPerSec

\* lines 322-347 with a frame: readline returns it at tick t; check_sensor,
\* decode, timestamp, update_data.  A frame that does not decode raises out
\* of the loop (only KeyboardInterrupt is caught).
PollFrame ==
    /\ pc = "read"
    /\ now < EndTick
    /\ \E data \in GoodFrames \cup BadFrames, t \in Arrivals :
        LET c == check_sensor(data, sensorFiles[sensor_status_path], t, Globals)
            d == Decode(data, t, c.g)
            u == update_data(rawFiles[raw_data_path], d.g)
        IN /\ now' = t
           /\ lastFrameAt' = t
           /\ raw_data' = data
           /\ sensorFiles' = [sensorFiles EXCEPT ![sensor_status_path] = c.file]
           /\ IF d.ok /\ SameLength(d.g)
              THEN /\ rawFiles' = [rawFiles EXCEPT ![raw_data_path] = u.file]
                   /\ SetGlobals(u.g)
                   /\ pc' = "date"
              ELSE /\ UNCHANGED rawFiles
                   /\ SetGlobals(d.g)
                   /\ pc' = "crashed"
    /\ UNCHANGED <<program_start, dates>>
    /\ UNCHANGED others

\* PollNoData with update_data called after every poll, frame or no frame
PollNoData_Flushes ==
    /\ pc = "read"
    /\ now < EndTick
    /\ LET t == now + ReadTimeout * TicksPerSec
           c == check_sensor(NoData, sensorFiles[sensor_status_path], t, Globals)
           u == update_data(rawFiles[raw_data_path], c.g)
       IN /\ now' = t
          /\ lastFrameAt' = 0 - 1
          /\ raw_data' = NoData
          /\ sensorFiles' = [sensorFiles EXCEPT ![sensor_status_path] = c.file]
          /\ rawFiles' = [rawFiles EXCEPT ![raw_data_path] = u.file]
          /\ SetGlobals(u.g)
          /\ pc' = "date"
    /\ UNCHANGED <<program_start, dates>>
    /\ UNCHANGED others

\* lines 322-323 without a frame: readline times out, check_sensor returns None
PollNoData ==
    /\ pc = "read"
    /\ now < EndTick
    /\ LET t == now + ReadTimeout * TicksPerSec
           c == check_sensor(NoData, sensorFiles[sensor_status_path], t, Globals)
       IN /\ now' = t
          /\ lastFrameAt' = 0 - 1
          /\ raw_data' = NoData
          /\ sensorFiles' = [sensorFiles EXCEPT ![sensor_status_path] = c.file]
          /\ SetGlobals(c.g)
          /\ pc' = "date"
    /\ UNCHANGED <<program_start, dates, rawFiles>>
    /\ UNCHANGED others

\* Stop without line 350: the handler closes the port and flushes nothing
Stop_NoFlush ==
    /\ Running
    /\ pc' = "stopped"
    /\ UNCHANGED <<rawFiles, tracker, buffers>>
    /\ UNCHANGED <<now, lastFrameAt, program_start, dates, raw_data, sensorFiles>>
    /\ UNCHANGED others

\* lines 349-355: KeyboardInterrupt between two steps of the loop; the handler
\* itself raises when raw_data_path is not yet bound or the lists differ in length
Stop ==
    /\ Running
    /\ IF raw_data_path # NoPath /\ SameLength(Globals)
       THEN LET u == update_data(rawFiles[raw_data_path], Globals)
            IN /\ rawFiles' = [rawFiles EXCEPT ![raw_data_path] = u.file]
               /\ SetGlobals(u.g)
               /\ pc' = "stopped"
       ELSE /\ pc' = "failed"
            /\ UNCHANGED <<rawFiles, tracker, buffers>>
    /\ UNCHANGED <<now, lastFrameAt, program_start, dates, raw_data, sensorFiles>>
    /\ UNCHANGED others

\* the five lists when the appends of lines 329-344 stop after the first
\* done of them (direction, speed, U, V, timestamp)
Appended(before, after, done) ==
    [before EXCEPT !.wind_direction = IF done >= 1 THEN after.wind_direction ELSE @,
                   !.wind_speed = IF done >= 2 THEN after.wind_speed ELSE @,
                   !.u_comp_list = IF done >= 3 THEN after.u_comp_list ELSE @,
                   !.v_comp_list = IF done >= 4 THEN after.v_comp_list ELSE @,
                   !.time_list = IF done >= 5 THEN after.time_list ELSE @]

\* lines 322-344 and 349-355: KeyboardInterrupt while a frame is being
\* decoded, after done of the five appends and before update_data; the
\* handler's update_data raises when the lists differ in length
StopInDecode ==
    /\ pc = "read"
    /\ now < EndTick
    /\ \E data \in GoodFrames, t \in Arrivals, done \in 0 .. 5 :
        LET c == check_sensor(data, sensorFiles[sensor_status_path], t, Globals)
            g == Appended(c.g, Decode(data, t, c.g).g, done)
            u == update_data(rawFiles[raw_data_path], g)
        IN /\ now' = t
           /\ lastFrameAt' = t
           /\ raw_data' = data
           /\ sensorFiles' = [sensorFiles EXCEPT ![sensor_status_path] = c.file]
           /\ IF SameLength(g)
              THEN /\ rawFiles' = [rawFiles EXCEPT ![raw_data_path] = u.file]
                   /\ SetGlobals(u.g)
                   /\ pc' = "stopped"
              ELSE /\ UNCHANGED rawFiles
                   /\ SetGlobals(g)
                   /\ pc' = "failed"
    /\ UNCHANGED <<program_start, dates>>
    /\ UNCHANGED others

Next ==
    \/ ReadDate
    \/ MakePaths
    \/ MidnightPasses
    \/ Rollover
    \/ NoRollover
    \/ PollFrame
    \/ PollNoData
    \/ Stop
    \/ StopInDecode

Spec == Init /\ [][Next]_vars


\* ------------------------------------------- the rollover block, run twice
\* the sequence of the elements of pool whose index is in S, in pool's order
Pick(pool, S) ==
    LET F[i \in 0 .. Len(pool)] ==
            IF i = 0 THEN << >>
            ELSE IF i \in S THEN Append(F[i - 1], pool[i]) ELSE F[i - 1]
    IN F[Len(pool)]

Picks(pool) == { Pick(pool, S) : S \in SUBSET (1 .. Len(pool)) }

\* a decoded sample, as update_data writes it
Sample(ts) == Row(ts, 90, 5, 0, 0 - 5)

\* samples of day 0: either side of 23:00:00 and the last MaxRows seconds
LateRows ==
    <<Sample(HourStart - 1), Sample(HourStart)>>
    \o [i \in 1 .. MaxRows |-> Sample(DayEnd - MaxRows + i)]

\* samples of the first MaxRows seconds of day 1
EarlyRows == [i \in 1 .. MaxRows |-> Sample(SecPerDay + i - 1)]

\* the loop stands at line 300 in the first iteration of day 1; the two
\* partitions hold what earlier polling wrote
InitAtRollover ==
    /\ now = Midnight
    /\ program_start = FmtSec(Midnight - 1)
    /\ lastFrameAt = 0 - 1
    /\ pc = "roll"
    /\ previous_date = 0
    /\ current_date = 1
    /\ raw_data_path = 1
    /\ sensor_status_path = 1
    /\ raw_data = NoData
    /\ sensor_status = TRUE
    /\ sensor_off_timestamp = << >>
    /\ sensor_on_timestamp = << >>
    /\ duration = << >>
    /\ sensor_timestampoff = 0
    /\ sensor_off_count = 0
    /\ time_list = << >>
    /\ wind_direction = << >>
    /\ wind_speed = << >>
    /\ u_comp_list = << >>
    /\ v_comp_list = << >>
    /\ \E old \in Picks(LateRows), new \in Picks(EarlyRows) :
           rawFiles = [d \in Days |-> WriteCsv(Header, IF d = 0 THEN old ELSE new)]
    /\ sensorFiles = [d \in Days |-> FileOf(<<SensorHeader>>)]
    /\ new_day_df = << >>
    /\ AggregationOff
    /\ DisplayOff

\* lines 301-317 once more for the pair (current_date - 1, current_date) the
\* block has just been run for
RolloverAgain ==
    /\ pc = "read"
    /\ previous_date = current_date
    /\ IF CanRead(rawFiles[current_date - 1]) /\ CanRead(rawFiles[raw_data_path])
       THEN /\ rawFiles' = [rawFiles EXCEPT ![raw_data_path] =
                                Carry(rawFiles[current_date - 1], @, current_date - 1)]
            /\ pc' = "rolled again"
       ELSE /\ pc' = "crashed"
            /\ UNCHANGED rawFiles
    /\ UNCHANGED <<now, lastFrameAt, program_start, dates, raw_data, tracker, buffers,
                   sensorFiles>>
    /\ UNCHANGED others

RolloverTwiceNext ==
    \/ Rollover
    \/ RolloverAgain

RolloverTwiceSpec == InitAtRollover /\ [][RolloverTwiceNext]_vars


\* ------------------------------------------------- get_data (Mainpage.py)
\* lines 98-101 and the two handlers (103-112): one pass of the while loop
\* whose test holds.  read_csv either returns and get_data returns its frame,
\* or raises one of the two handled errors (count, then sleep), or raises
\* something else, which leaves get_data.
get_data_attempt_NoCount ==
    /\ dpc = "get_data"
    /\ attempt < max_retry
    /\ LET r == ReadOutcome(meanFiles[path])
       IN CASE r = "DataFrame" ->
                 /\ mean_df' = DataFrame(ReadCsv(meanFiles[path]))
                 /\ dpc' = "returned"
                 /\ UNCHANGED attempt
            [] r \in {"FileNotFoundError", "EmptyDataError"} ->
                 /\ attempt' = attempt
                 /\ dpc' = "sleep"
                 /\ UNCHANGED mean_df
            [] OTHER ->
                 /\ dpc' = "raised"
                 /\ UNCHANGED <<attempt, mean_df>>
    /\ UNCHANGED <<disp_current_date, disp_previous_date, path, max_retry>>
    /\ UNCHANGED <<now, lastFrameAt, pc, program_start, dates, raw_data, tracker, buffers,
                   rawFiles, sensorFiles, new_day_df, aggregation>>

get_data_attempt ==
    /\ dpc = "get_data"
    /\ attempt < max_retry
    /\ LET r == ReadOutcome(meanFiles[path])
       IN CASE r = "DataFrame" ->
                 /\ mean_df' = DataFrame(ReadCsv(meanFiles[path]))
                 /\ dpc' = "returned"
                 /\ UNCHANGED attempt
            [] r \in {"FileNotFoundError", "EmptyDataError"} ->
                 /\ attempt' = attempt + 1
                 /\ dpc' = "sleep"
                 /\ UNCHANGED mean_df
            [] OTHER ->
                 /\ dpc' = "raised"
                 /\ UNCHANGED <<attempt, mean_df>>
    /\ UNCHANGED <<disp_current_date, disp_previous_date, path, max_retry>>
    /\ UNCHANGED <<now, lastFrameAt, pc, program_start, dates, raw_data, tracker, buffers,
                   rawFiles, sensorFiles, new_day_df, aggregation>>

\* lines 106 / 112: time.sleep(delay) returns, back to the while test
get_data_slept ==
    /\ dpc = "sleep"
    /\ dpc' = "get_data"
    /\ UNCHANGED <<disp_current_date, disp_previous_date, path, attempt, max_retry, mean_df>>
    /\ UNCHANGED <<now, lastFrameAt, pc, program_start, dates, raw_data, tracker, buffers,
                   rawFiles, sensorFiles, new_day_df, aggregation>>

\* get_data_exhausted giving up one attempt early
get_data_exhausted_OneShort ==
    /\ dpc = "get_data"
    /\ attempt + 1 >= max_retry
    /\ mean_df' = None
    /\ dpc' = "returned"
    /\ UNCHANGED <<disp_current_date, disp_previous_date, path, attempt, max_retry>>
    /\ UNCHANGED <<now, lastFrameAt, pc, program_start, dates, raw_data, tracker, buffers,
                   rawFiles, sensorFiles, new_day_df, aggregation>>

\* line 98 false: the loop ends and the function falls off its end (None)
get_data_exhausted ==
    /\ dpc = "get_data"
    /\ attempt >= max_retry
    /\ mean_df' = None
    /\ dpc' = "returned"
    /\ UNCHANGED <<disp_current_date, disp_previous_date, path, attempt, max_retry>>
    /\ UNCHANGED <<now, lastFrameAt, pc, program_start, dates, raw_data, tracker, buffers,
                   rawFiles, sensorFiles, new_day_df, aggregation>>

\* full_code.py has not been started
IngestionOff ==
    /\ lastFrameAt = 0 - 1
    /\ pc = "off"
    /\ program_start = 0
    /\ previous_date = 0
    /\ current_date = 0
    /\ raw_data_path = NoPath
    /\ sensor_status_path = NoPath
    /\ raw_data = NoData
    /\ sensor_status = TRUE
    /\ sensor_off_timestamp = << >>
    /\ sensor_on_timestamp = << >>
    /\ duration = << >>
    /\ sensor_timestampoff = 0
    /\ sensor_off_count = 0
    /\ time_list = << >>
    /\ wind_direction = << >>
    /\ wind_speed = << >>
    /\ u_comp_list = << >>
    /\ v_comp_list = << >>
    /\ sensorFiles = [d \in Days |-> NoFile]
    /\ new_day_df = << >>

\* what a reader can find at the path: no file, a file just truncated, a
\* written file of up to two rows, a file it cannot tokenize
FileStates ==
    {NoFile, FileOf(<< >>), FileOf(<<MeanHeader>>),
     FileOf(<<MeanHeader, MeanRow(SecPerDay - SecPerMin)>>),
     FileOf(<<MeanHeader, MeanRow(SecPerDay - 2 * SecPerMin), MeanRow(SecPerDay - SecPerMin)>>),
     FileOf(<<MeanHeader, Garbled>>)}

\* get_data(path, max_retry) has just been called
InitReader ==
    /\ now = Midnight - 1
    /\ IngestionOff
    /\ rawFiles = [d \in Days |-> NoFile]
    /\ apc = "off"
    /\ agg_current_date = 0
    /\ agg_previous_date = 0
    /\ raw_path = NoPath
    /\ mean_path = NoPath
    /\ df = << >>
    /\ \E f \in FileStates : meanFiles = [d \in Days |-> IF d = 0 THEN f ELSE NoFile]
    /\ cycles = << >>
    /\ dpc = "get_data"
    /\ disp_current_date = 0
    /\ disp_previous_date = 0
    /\ path = 0
    /\ attempt = 0
    /\ max_retry \in 1 .. MaxRetry
    /\ mean_df = None

\* another process creates, truncates or rewrites the file while get_data
\* sleeps between two attempts
FileChanges ==
    /\ dpc = "sleep"
    /\ \E f \in FileStates : meanFiles' = [meanFiles EXCEPT ![path] = f]
    /\ meanFiles' # meanFiles
    /\ UNCHANGED <<apc, agg_current_date, agg_previous_date, raw_path, mean_path, df>>
    /\ UNCHANGED <<now, lastFrameAt, pc, program_start, dates, raw_data, tracker, buffers,
                   rawFiles, sensorFiles, new_day_df, display>>
    /\ UNCHANGED cycles

ReaderNext ==
    \/ get_data_attempt
    \/ get_data_slept
    \/ get_data_exhausted
    \/ FileChanges

ReaderSpec == InitReader /\ [][ReaderNext]_vars

\* the reader is one thread that keeps running: the pass it stands at is
\* taken, a sleep returns
ReaderFairSpec ==
    /\ ReaderSpec
    /\ WF_vars(get_data_attempt)
    /\ WF_vars(get_data_slept)
    /\ WF_vars(get_data_exhausted)


\* -------------------------------- the three processes side by side, around
\* -------------------------------- midnight, sharing the partition files
\* the wall clock passes midnight, whatever the processes are doing
DayTurns ==
    /\ now + 1 = Midnight
    /\ now' = now + 1
    /\ UNCHANGED <<lastFrameAt, pc, program_start, dates, raw_data, tracker, buffers,
                   rawFiles, sensorFiles, others>>

\* ---- ingestion (full_code.py), with the rewrite of line 317 in two steps
\* lines 300-317 up to the opening of the file: both partitions are read,
\* the frames concatenated, and to_csv opens raw_data_path for writing,
\* which empties it
RolloverTruncates ==
    /\ pc = "roll"
    /\ current_date # previous_date
    /\ IF CanRead(rawFiles[previous_date]) /\ CanRead(rawFiles[raw_data_path])
       THEN /\ new_day_df' = ReadCsv(Carry(rawFiles[previous_date],
                                           rawFiles[raw_data_path], previous_date))
            /\ rawFiles' = [rawFiles EXCEPT ![raw_data_path] = FileOf(<< >>)]
            /\ pc' = "rewrite"
       ELSE /\ pc' = "crashed"
            /\ UNCHANGED <<rawFiles, new_day_df>>
    /\ UNCHANGED <<now, lastFrameAt, program_start, dates, raw_data, tracker, buffers,
                   sensorFiles, aggregation, display>>

\* lines 317-319: to_csv writes the frame out and closes the file
RolloverWrites ==
    /\ pc = "rewrite"
    /\ rawFiles' = [rawFiles EXCEPT ![raw_data_path] = WriteCsv(Header, new_day_df)]
    /\ previous_date' = current_date
    /\ pc' = "read"
    /\ UNCHANGED <<now, lastFrameAt, program_start, current_date, raw_data_path,
                   sensor_status_path, raw_data, tracker, buffers, sensorFiles, others>>

\* lines 322-347 in short: a poll that appends the sample of the current
\* second, or (no frame) appends nothing
Polls ==
    /\ pc = "read"
    /\ \/ /\ \A i \in 1 .. Len(rawFiles[raw_data_path].lines) :
                rawFiles[raw_data_path].lines[i].DateTime < FmtSec(now)
          /\ rawFiles' = [rawFiles EXCEPT ![raw_data_path] =
                             AppendCsv(@, Header, <<Sample(FmtSec(now))>>)]
       \/ UNCHANGED rawFiles
    /\ pc' = "date"
    /\ UNCHANGED <<now, lastFrameAt, program_start, dates, raw_data, tracker, buffers,
                   sensorFiles, others>>

\* ---- aggregation (Postprocess.py)
\* lines 107-110: today's date, the raw path named for it, and the test for
\* a new date
AggReadDate ==
    /\ apc = "date"
    /\ agg_current_date' = Today(now)
    /\ raw_path' = Today(now)
    /\ apc' = IF Today(now) # agg_previous_date THEN "sleep" ELSE "check"
    /\ UNCHANGED <<agg_previous_date, mean_path, df, meanFiles>>
    /\ UNCHANGED <<now, lastFrameAt, pc, program_start, dates, raw_data, tracker, buffers,
                   rawFiles, sensorFiles, new_day_df, display>>
    /\ UNCHANGED cycles

\* lines 111-112: time.sleep(5) returns
AggSlept ==
    /\ apc = "sleep"
    /\ agg_previous_date' = agg_current_date
    /\ apc' = "check"
    /\ UNCHANGED <<agg_current_date, raw_path, mean_path, df, meanFiles>>
    /\ UNCHANGED <<now, lastFrameAt, pc, program_start, dates, raw_data, tracker, buffers,
                   rawFiles, sensorFiles, new_day_df, display>>
    /\ UNCHANGED cycles

\* check_datafile(file_path): sys.exit when there is no such file
check_datafile(f) == IF f.exists THEN "path" ELSE "exited"

\* line 117
AggCheck ==
    /\ apc = "check"
    /\ apc' = check_datafile(rawFiles[raw_path])
    /\ UNCHANGED <<agg_current_date, agg_previous_date, raw_path, mean_path, df, meanFiles>>
    /\ UNCHANGED <<now, lastFrameAt, pc, program_start, dates, raw_data, tracker, buffers,
                   rawFiles, sensorFiles, new_day_df, display>>
    /\ UNCHANGED cycles

\* line 122: generate_filename reads today's date again
AggPath ==
    /\ apc = "path"
    /\ mean_path' = Today(now)
    /\ apc' = "read"
    /\ UNCHANGED <<agg_current_date, agg_previous_date, raw_path, df, meanFiles>>
    /\ UNCHANGED <<now, lastFrameAt, pc, program_start, dates, raw_data, tracker, buffers,
                   rawFiles, sensorFiles, new_day_df, display>>
    /\ UNCHANGED cycles

\* lines 125-127: one pd.read_csv, nothing around it
AggRead ==
    /\ apc = "read"
    /\ IF ReadOutcome(rawFiles[raw_path]) = "DataFrame"
       THEN /\ df' = ReadCsv(rawFiles[raw_path])
            /\ apc' = "compute"
       ELSE /\ apc' = "crashed"
            /\ UNCHANGED df
    /\ UNCHANGED <<agg_current_date, agg_previous_date, raw_path, mean_path, meanFiles>>
    /\ UNCHANGED <<now, lastFrameAt, pc, program_start, dates, raw_data, tracker, buffers,
                   rawFiles, sensorFiles, new_day_df, display>>
    /\ UNCHANGED cycles

MinuteOf(ts) == (ts \div SecPerMin) * SecPerMin

\* resample('1min') as a grouping would do it: only the minutes that hold a
\* row with a speed get a row
Resample_SkipsEmpty(rows) ==
    LET ms == { MinuteOf(rows[i].DateTime) : i \in { k \in 1 .. Len(rows) : rows[k].spd # NaN } }
        Nth(S, i) == CHOOSE m \in S : Cardinality({ k \in S : k < m }) = i - 1
    IN [i \in 1 .. Cardinality(ms) |-> MeanRow(Nth(ms, i))]

\* resample('1min') with the last bin left out: the minute of the latest row
\* gets no row
Resample_OpenEnd(rows) ==
    IF rows = << >> THEN << >>
    ELSE LET ms == { MinuteOf(rows[i].DateTime) : i \in 1 .. Len(rows) }
             lo == CHOOSE m \in ms : \A k \in ms : m <= k
             hi == CHOOSE m \in ms : \A k \in ms : m >= k
         IN [i \in 1 .. (hi - lo) \div SecPerMin |-> MeanRow(lo + (i - 1) * SecPerMin)]

\* resample('1min'): one row for every minute from that of the earliest row
\* to that of the latest
Resample(rows) ==
    IF rows = << >> THEN << >>
    ELSE LET ms == { MinuteOf(rows[i].DateTime) : i \in 1 .. Len(rows) }
             lo == CHOOSE m \in ms : \A k \in ms : m <= k
             hi == CHOOSE m \in ms : \A k \in ms : m >= k
         IN [i \in 1 .. (hi - lo) \div SecPerMin + 1 |-> MeanRow(lo + (i - 1) * SecPerMin)]

\* ---- the arithmetic of one cycle.  A column is a sequence with one entry
\* ---- per row of df; raw values are whole numbers, aggregated ones are in
\* ---- units of 1 / Scale.
\* num / den rounded to 4 decimals, in units of 1 / Scale; the decimals are
\* taken two at a time (Scale = Cent * Cent) to stay within 32 bits
Cent == 100

Round4(num, den) ==
    LET whole == num \div den
        two == ((num % den) * Cent) \div den
        rest == ((num % den) * Cent) % den
    IN whole * Scale + two * Cent + (2 * rest * Cent + den) \div (2 * den)

\* (a sequence built by a function constructor is concatenated with the empty
\* sequence so that it is held as a tuple, each entry computed once)
Column(rows, c) == [i \in 1 .. Len(rows) |-> rows[i][c]] \o << >>

\* the rows of a series that hold no value
Absent(series) == { j \in 1 .. Len(series) : series[j] = NaN }

\* rolling(window = n) has min_periods = n: a value at row i needs n rows up
\* to i, none of them absent (bad: the absent rows of the series)
Complete(bad, i, window) ==
    /\ i >= window
    /\ \A j \in bad : j <= i - window \/ j > i

RECURSIVE SumRange(_, _, _)
SumRange(series, lo, hi) ==
    IF lo > hi THEN 0
    ELSE IF lo = hi THEN series[lo]
    ELSE LET mid == (lo + hi) \div 2
         IN SumRange(series, lo, mid) + SumRange(series, mid + 1, hi)

MaxOf(S) == CHOOSE m \in S : \A k \in S : m >= k

\* The sum and the maximum of a window are put together from those of whole
\* blocks of BlockLen rows, each computed once, and the rows at both ends of
\* the window that fill no block.
BlockLen == 60

\* the first and the last block that lie inside rows lo .. hi
FirstBlock(lo) == (lo + BlockLen - 2) \div BlockLen + 1
LastBlock(hi) == hi \div BlockLen

BlockSums(series) ==
    [k \in 1 .. Len(series) \div BlockLen |->
        SumRange(series, (k - 1) * BlockLen + 1, k * BlockLen)] \o << >>

BlockMaxima(series) ==
    [k \in 1 .. Len(series) \div BlockLen |->
        MaxOf({ series[j] : j \in (k - 1) * BlockLen + 1 .. k * BlockLen })] \o << >>

\* series[lo] + ... + series[hi]
WindowSum(series, blocks, lo, hi) ==
    IF FirstBlock(lo) > LastBlock(hi) THEN SumRange(series, lo, hi)
    ELSE SumRange(series, lo, (FirstBlock(lo) - 1) * BlockLen)
            + SumRange(blocks, FirstBlock(lo), LastBlock(hi))
            + SumRange(series, LastBlock(hi) * BlockLen + 1, hi)

\* max(series[lo], ..., series[hi])
WindowMax(series, blocks, lo, hi) ==
    IF FirstBlock(lo) > LastBlock(hi) THEN MaxOf({ series[j] : j \in lo .. hi })
    ELSE MaxOf({ series[j] : j \in lo .. (FirstBlock(lo) - 1) * BlockLen }
               \cup { blocks[k] : k \in FirstBlock(lo) .. LastBlock(hi) }
               \cup { series[j] : j \in LastBlock(hi) * BlockLen + 1 .. hi })

\* rolling(window).mean(), kept as the sum of the window (the mean is this
\* sum over window)
rolling_sum(series, window) ==
    LET bad == Absent(series)
        blocks == BlockSums(series)
    IN [i \in 1 .. Len(series) |->
           IF Complete(bad, i, window)
           THEN WindowSum(series, blocks, i - window + 1, i)
           ELSE NaN]

\* rolling(window).max()
rolling_max(series, window) ==
    LET bad == Absent(series)
        blocks == BlockMaxima(series)
    IN [i \in 1 .. Len(series) |->
           IF Complete(bad, i, window)
           THEN WindowMax(series, blocks, i - window + 1, i)
           ELSE NaN]

\* line 130: df["WindSpeed (m/s)"].rolling(window = 3).mean().round(4)
gust_base(spd) ==
    LET r == rolling_sum(spd, Window3sec)
    IN [i \in 1 .. Len(spd) |-> IF r[i] = NaN THEN NaN ELSE Round4(r[i], Window3sec)] \o << >>

\* the rows of df that fall into the minute m
InBin(rows, m) == { i \in 1 .. Len(rows) : MinuteOf(rows[i].DateTime) = m }

Present(series, I) == { i \in I : series[i] # NaN }

RECURSIVE SumSet(_, _)
SumSet(series, I) ==
    IF I = {} THEN 0
    ELSE LET i == CHOOSE k \in I : TRUE IN series[i] + SumSet(series, I \ {i})

\* resample('1min').mean().round(4) of a series whose entries are sums over
\* den samples: absent entries are skipped, a bin without any is absent
resample_mean(rows, series, den) ==
    LET bins == Resample(rows) \o << >>
    IN [b \in 1 .. Len(bins) |->
           LET P == Present(series, InBin(rows, bins[b].DateTime))
           IN IF P = {} THEN NaN ELSE Round4(SumSet(series, P), den * Cardinality(P))]

\* resample('1min').max()
resample_max(rows, series) ==
    LET bins == Resample(rows) \o << >>
    IN [b \in 1 .. Len(bins) |->
           LET P == Present(series, InBin(rows, bins[b].DateTime))
           IN IF P = {} THEN NaN ELSE MaxOf({ series[i] : i \in P })]

\* roll_avg without its first stage: the per-minute mean of the series itself
roll_avg_BlockOnly(rows, series, window) == resample_mean(rows, series, 1)

\* roll_avg(df, window)
roll_avg(rows, series, window) ==
    resample_mean(rows, rolling_sum(series, window) \o << >>, window)

\* roll_gust(df, window)
roll_gust(rows, series, window) ==
    resample_max(rows, rolling_max(series, window) \o << >>)

\* tan((k - 1/2) degrees) for k = 1 .. 45, in units of 1/Scale^2
TanHalf ==
  << 872686, 2618592, 4366094, 6116262, 7870170, 9628904, 11393560, 13165249, 14945100,
     16734260, 18533904, 20345229, 22169466, 24007875, 25861758, 27732454, 29621349, 31529878,
     33459531, 35411857, 37388467, 39391047, 41421356, 43481237, 45572625, 47697553, 49858160,
     52056705, 54295569, 56577277, 58904501, 61280078, 63707026, 66188556, 68728095, 71329306,
     73996107, 76732698, 79543591, 82433638, 85408068, 88472526, 91633117, 94896456, 98269726 >>

\* b / a in units of 1/Scale^2, for 0 <= b <= a and a > 0
Ratio8(b, a) == ((b * Scale) \div a) * Scale + (((b * Scale) % a) * Scale) \div a

\* arctan(b / a) in whole degrees, for 0 <= b <= a and a > 0: 0 .. 45
Octant(b, a) == Cardinality({ k \in 1 .. Len(TanHalf) : Ratio8(b, a) > TanHalf[k] })

\* arctan2(y, x) in whole degrees, for x >= 0 and y >= 0, not both 0: 0 .. 90
Quadrant(y, x) == IF y <= x THEN Octant(y, x) ELSE 90 - Octant(x, y)

\* (np.degrees(np.arctan2(y, x)) % 360).round(0), not both 0: 0 .. 360
ArcTan2Deg(y, x) ==
    CASE x > 0 /\ y >= 0 -> Quadrant(y, x)
      [] x <= 0 /\ y > 0 -> 180 - Quadrant(y, 0 - x)
      [] x < 0 /\ y <= 0 -> 180 + Quadrant(0 - y, 0 - x)
      [] x >= 0 /\ y < 0 -> 360 - Quadrant(0 - y, x)

\* calc_degrees without line 66: no special case for u = v = 0 (arctan2 of
\* two zeros is 0 or 180 degrees)
Degrees_NoCalm(u, v) ==
    IF u = NaN \/ v = NaN THEN NaN
    ELSE IF u = 0 /\ v = 0 THEN 180
    ELSE ArcTan2Deg(0 - v, 0 - u)

\* calc_degrees with the arguments of arctan2 exchanged: arctan2(-u, -v)
Degrees_Exchanged(u, v) ==
    IF u = NaN \/ v = NaN THEN NaN
    ELSE IF u = 0 /\ v = 0 THEN NaN
    ELSE ArcTan2Deg(0 - u, 0 - v)

\* calc_degrees(u, v) for one pair of components
Degrees(u, v) ==
    IF u = NaN \/ v = NaN THEN NaN
    ELSE IF u = 0 /\ v = 0 THEN NaN
    ELSE ArcTan2Deg(0 - v, 0 - u)

calc_degrees(u, v) == [b \in 1 .. Len(u) |-> Degrees(u[b], v[b])]

\* Aggregate with the 1-minute means taken over every row of the bin, an
\* absent value counting as 0
Aggregate_NaNAsZero(rows) ==
    LET Z(series) == [i \in 1 .. Len(series) |-> IF series[i] = NaN THEN 0 ELSE series[i]]
        spd == Column(rows, "spd")
        U == Column(rows, "U")
        V == Column(rows, "V")
        gust == gust_base(spd)
        ws_mean_1min == resample_mean(rows, Z(spd), 1)
        deg_result_1min == calc_degrees(resample_mean(rows, Z(U), 1), resample_mean(rows, Z(V), 1))
        gst_1min == resample_max(rows, gust)
        ws_mean_10min == roll_avg(rows, spd, Window10min)
        deg_result_10min == calc_degrees(roll_avg(rows, U, Window10min),
                                         roll_avg(rows, V, Window10min))
        gst_10min == roll_gust(rows, gust, Window10min)
        ws_mean_1hour == roll_avg(rows, spd, Window1hour)
        deg_result_1hour == calc_degrees(roll_avg(rows, U, Window1hour),
                                         roll_avg(rows, V, Window1hour))
        gst_1hour == roll_gust(rows, gust, Window10min)
        bins == Resample(rows) \o << >>
    IN [b \in 1 .. Len(bins) |->
           [hdr |-> FALSE, DateTime |-> bins[b].DateTime,
            ws_1min |-> ws_mean_1min[b], wd_1min |-> deg_result_1min[b], gst_1min |-> gst_1min[b],
            ws_10min |-> ws_mean_10min[b], wd_10min |-> deg_result_10min[b], gst_10min |-> gst_10min[b],
            ws_1hour |-> ws_mean_1hour[b], wd_1hour |-> deg_result_1hour[b], gst_1hour |-> gst_1hour[b]]]

\* lines 130-167: the nine columns of mean_df, one record per minute
Aggregate(rows) ==
    LET spd == Column(rows, "spd")
        U == Column(rows, "U")
        V == Column(rows, "V")
        gust == gust_base(spd)
        ws_mean_1min == resample_mean(rows, spd, 1)
        deg_result_1min == calc_degrees(resample_mean(rows, U, 1), resample_mean(rows, V, 1))
        gst_1min == resample_max(rows, gust)
        ws_mean_10min == roll_avg(rows, spd, Window10min)
        deg_result_10min == calc_degrees(roll_avg(rows, U, Window10min),
                                         roll_avg(rows, V, Window10min))
        gst_10min == roll_gust(rows, gust, Window10min)
        ws_mean_1hour == roll_avg(rows, spd, Window1hour)
        deg_result_1hour == calc_degrees(roll_avg(rows, U, Window1hour),
                                         roll_avg(rows, V, Window1hour))
        gst_1hour == roll_gust(rows, gust, Window10min)
        bins == Resample(rows) \o << >>
    IN [b \in 1 .. Len(bins) |->
           [hdr |-> FALSE, DateTime |-> bins[b].DateTime,
            ws_1min |-> ws_mean_1min[b], wd_1min |-> deg_result_1min[b], gst_1min |-> gst_1min[b],
            ws_10min |-> ws_mean_10min[b], wd_10min |-> deg_result_10min[b], gst_10min |-> gst_10min[b],
            ws_1hour |-> ws_mean_1hour[b], wd_1hour |-> deg_result_1hour[b], gst_1hour |-> gst_1hour[b]]]

\* line 169: mean_df[mean_df.index.date == current_date]
OnDate(rows, date) == SelectSeq(rows, LAMBDA r : DateOfSec(r.DateTime) = date)

\* lines 130-171 up to the opening of the file: to_csv(mean_path, mode = 'w')
\* empties it
AggTruncates ==
    /\ apc = "compute"
    /\ meanFiles' = [meanFiles EXCEPT ![mean_path] = FileOf(<< >>)]
    /\ apc' = "write"
    /\ UNCHANGED <<agg_current_date, agg_previous_date, raw_path, mean_path, df>>
    /\ UNCHANGED <<now, lastFrameAt, pc, program_start, dates, raw_data, tracker, buffers,
                   rawFiles, sensorFiles, new_day_df, display>>
    /\ UNCHANGED cycles

\* one completed pass: the raw rows it read, the date it filtered on and the
\* rows it wrote
Cycle(read, date, computed) == [df |-> read, date |-> date, rows |-> OnDate(computed, date)]

\* the history with one more pass, the oldest dropped beyond MaxCycles
Remember(history, c) ==
    IF Len(history) < MaxCycles THEN Append(history, c) ELSE Append(Tail(history), c)

\* AggWrites made incremental: only the minutes that no remembered pass has
\* written yet are written
AggWrites_Incremental ==
    /\ apc = "write"
    /\ LET all == Cycle(df, agg_current_date, Aggregate(df))
           Old(r) == \E k \in 1 .. Len(cycles) : \E q \in 1 .. Len(cycles[k].rows) :
                         cycles[k].rows[q].DateTime = r.DateTime
           c == [all EXCEPT !.rows = SelectSeq(all.rows, LAMBDA r : ~Old(r))]
       IN /\ meanFiles' = [meanFiles EXCEPT ![mean_path] = WriteCsv(MeanHeader, c.rows)]
          /\ cycles' = Remember(cycles, c)
    /\ apc' = "date"
    /\ UNCHANGED <<agg_current_date, agg_previous_date, raw_path, mean_path, df>>
    /\ UNCHANGED <<now, lastFrameAt, pc, program_start, dates, raw_data, tracker, buffers,
                   rawFiles, sensorFiles, new_day_df, display>>

\* lines 171-173: the rows are written, then time.sleep(15)
AggWrites ==
    /\ apc = "write"
    /\ LET c == Cycle(df, agg_current_date, Aggregate(df))
       IN /\ meanFiles' = [meanFiles EXCEPT ![mean_path] = WriteCsv(MeanHeader, c.rows)]
          /\ cycles' = Remember(cycles, c)
    /\ apc' = "date"
    /\ UNCHANGED <<agg_current_date, agg_previous_date, raw_path, mean_path, df>>
    /\ UNCHANGED <<now, lastFrameAt, pc, program_start, dates, raw_data, tracker, buffers,
                   rawFiles, sensorFiles, new_day_df, display>>

\* ---- display (Mainpage.py)
\* lines 222-228: today's date; on a new date sleep, then record it
DispReadDate ==
    /\ dpc = "date"
    /\ disp_current_date' = Today(now)
    /\ disp_previous_date' = Today(now)
    /\ dpc' = "path"
    /\ UNCHANGED <<path, attempt, max_retry, mean_df>>
    /\ UNCHANGED <<now, lastFrameAt, pc, program_start, dates, raw_data, tracker, buffers,
                   rawFiles, sensorFiles, new_day_df, aggregation>>

\* lines 231-236: the path named for today, and the call get_data(mean_path)
DispCalls ==
    /\ dpc = "path"
    /\ path' = Today(now)
    /\ attempt' = 0
    /\ max_retry' = DefaultMaxRetry
    /\ dpc' = "get_data"
    /\ UNCHANGED <<disp_current_date, disp_previous_date, mean_df>>
    /\ UNCHANGED <<now, lastFrameAt, pc, program_start, dates, raw_data, tracker, buffers,
                   rawFiles, sensorFiles, new_day_df, aggregation>>

\* lines 237-375: mean_df['DateTime'] and the rest of the pass, then
\* time.sleep(15).  Subscripting None raises TypeError; the only handler is
\* the bare except of line 377, outside the while loop, which prints
\* "Program ended....".
DispUses ==
    /\ dpc = "returned"
    /\ dpc' = IF mean_df = None THEN "ended" ELSE "date"
    /\ UNCHANGED <<disp_current_date, disp_previous_date, path, attempt, max_retry, mean_df>>
    /\ UNCHANGED <<now, lastFrameAt, pc, program_start, dates, raw_data, tracker, buffers,
                   rawFiles, sensorFiles, new_day_df, aggregation>>

\* a partition of day 0 written before the three processes are looked at
Yesterday == WriteCsv(Header, <<Sample(DayEnd - 1)>>)

\* ingestion and aggregation have just been started, shortly before
\* midnight; the display is not running
InitAggregation ==
    /\ now = Midnight - 1
    /\ program_start = FmtSec(now)
    /\ lastFrameAt = 0 - 1
    /\ pc = "date"
    /\ previous_date = Today(now)
    /\ current_date = Today(now)
    /\ raw_data_path = NoPath
    /\ sensor_status_path = NoPath
    /\ raw_data = NoData
    /\ sensor_status = TRUE
    /\ sensor_off_timestamp = << >>
    /\ sensor_on_timestamp = << >>
    /\ duration = << >>
    /\ sensor_timestampoff = 0
    /\ sensor_off_count = 0
    /\ time_list = << >>
    /\ wind_direction = << >>
    /\ wind_speed = << >>
    /\ u_comp_list = << >>
    /\ v_comp_list = << >>
    /\ \E f0 \in {NoFile, Yesterday} : rawFiles = [d \in Days |-> IF d = 0 THEN f0 ELSE NoFile]
    /\ sensorFiles = [d \in Days |-> NoFile]
    /\ new_day_df = << >>
    /\ apc = "date"
    /\ agg_current_date = Today(now)
    /\ agg_previous_date = Today(now)
    /\ raw_path = NoPath
    /\ mean_path = NoPath
    /\ df = << >>
    /\ meanFiles = [d \in Days |-> NoFile]
    /\ cycles = << >>
    /\ DisplayOff

AggregationNext ==
    \/ DayTurns
    \/ ReadDate
    \/ MakePaths
    \/ RolloverTruncates
    \/ RolloverWrites
    \/ NoRollover
    \/ Polls
    \/ AggReadDate
    \/ AggSlept
    \/ AggCheck
    \/ AggPath
    \/ AggRead
    \/ AggTruncates
    \/ AggWrites

AggregationSpec == InitAggregation /\ [][AggregationNext]_vars

\* aggregation and display have just been started, shortly before midnight;
\* ingestion is not running and has left at most a partition of day 0
InitDisplay ==
    /\ now = Midnight - 1
    /\ IngestionOff
    /\ \E f0 \in {NoFile, Yesterday} : rawFiles = [d \in Days |-> IF d = 0 THEN f0 ELSE NoFile]
    /\ apc = "date"
    /\ agg_current_date = Today(now)
    /\ agg_previous_date = Today(now)
    /\ raw_path = NoPath
    /\ mean_path = NoPath
    /\ df = << >>
    /\ meanFiles = [d \in Days |-> NoFile]
    /\ cycles = << >>
    /\ dpc = "date"
    /\ disp_current_date = Today(now)
    /\ disp_previous_date = Today(now)
    /\ path = NoPath
    /\ attempt = 0
    /\ max_retry = 0
    /\ mean_df = None

DisplayNext ==
    \/ DayTurns
    \/ AggReadDate
    \/ AggSlept
    \/ AggCheck
    \/ AggPath
    \/ AggRead
    \/ AggTruncates
    \/ AggWrites
    \/ DispReadDate
    \/ DispCalls
    \/ get_data_attempt
    \/ get_data_slept
    \/ get_data_exhausted
    \/ DispUses

DisplaySpec == InitDisplay /\ [][DisplayNext]_vars


\* --------------------------- aggregation cycles over one day's raw partition
\* a placeholder row, as update_blank and update_data write it
Blank(ts) == Row(ts, NaN, NaN, NaN, NaN)

\* the raw rows stamped within minute m are all placeholders
OnlyPlaceholders(raw, m) ==
    \A i \in 1 .. Len(raw) : MinuteOf(raw[i].DateTime) = m => raw[i].spd = NaN

\* a 1 Hz series of n rows from noon on: direction d throughout, speed peak
\* in the first rows and base after them, placeholders at the rows in hole,
\* and gap seconds without any row (the program was not running) after the
\* first rows
Series(n, base, peak, d, hole, gap) ==
    [i \in 1 .. n |->
        LET ts == Noon + i - 1 + (IF i > Window3sec THEN gap ELSE 0)
            ws == IF i <= Window3sec THEN peak ELSE base
        IN IF i \in hole THEN Blank(ts) ELSE Row(ts, d, ws, u_comp(d, ws), v_comp(d, ws))]

\* unbroken series shorter than the 10-minute window
PlainInputs ==
    { Series(n, base, peak, d, {}, 0) :
        n \in {Window3sec, SecPerMin + Extra},
        base \in {0, 5},
        peak \in {5, 9},
        d \in Dirs }

\* series shorter than the 10-minute window, in every variation
ShortInputs ==
    { Series(n, base, peak, d, hole, gap) :
        n \in {Window3sec, SecPerMin + Extra},
        base \in {0, 5},
        peak \in {5, 9},
        d \in Dirs,
        hole \in {{}, Window3sec + 1 .. Window3sec + HoleLen},
        gap \in {0, Window10min + SecPerMin} }

\* series longer than the 10-minute window: a breeze from the east with a
\* stronger start, in every variation; a calm; a steady breeze from the south
LongInputs ==
    { Series(Window10min + Extra, 5, 9, 90, hole, gap) :
        hole \in {{}, Window3sec + 1 .. Window3sec + HoleLen},
        gap \in {0, Window10min + SecPerMin} }
    \cup { Series(Window10min + Extra, 0, 0, 90, {}, 0),
           Series(Window10min + Extra, 5, 5, 180, {}, 0) }

\* the tracker and the buffers just after the went-off transition at tick t
WentOffAt(t) ==
    SensorWentOff(t,
        [sensor_status |-> TRUE,
         sensor_off_timestamp |-> << >>,
         sensor_on_timestamp |-> << >>,
         duration |-> << >>,
         sensor_timestampoff |-> 0,
         sensor_off_count |-> 0,
         time_list |-> << >>,
         wind_direction |-> << >>,
         wind_speed |-> << >>,
         u_comp_list |-> << >>,
         v_comp_list |-> << >>])

\* Ingestion has written a series into the partition of day 0 and has been
\* Offline for OutageSec seconds since the second after its last row; it is
\* about to poll.  Aggregation has just been started.
InitOver(inputs) ==
    \E rows \in inputs :
        LET off == (rows[Len(rows)].DateTime + 1) * TicksPerSec
            g == WentOffAt(off)
        IN /\ now = off + OutageSec * TicksPerSec
           /\ program_start = Noon
           /\ lastFrameAt = 0 - 1
           /\ pc = "read"
           /\ previous_date = 0
           /\ current_date = 0
           /\ raw_data_path = 0
           /\ sensor_status_path = 0
           /\ raw_data = NoData
           /\ SetInitially(g)
           /\ rawFiles = [d \in Days |-> IF d = 0 THEN WriteCsv(Header, rows) ELSE NoFile]
           /\ sensorFiles = [d \in Days |-> IF d = 0 THEN FileOf(<<SensorHeader>>) ELSE NoFile]
           /\ new_day_df = << >>
           /\ apc = "date"
           /\ agg_current_date = 0
           /\ agg_previous_date = 0
           /\ raw_path = NoPath
           /\ mean_path = NoPath
           /\ df = << >>
           /\ meanFiles = [d \in Days |-> NoFile]
           /\ cycles = << >>
           /\ DisplayOff

InitCycle == InitOver(PlainInputs)

CycleNext ==
    \/ PollFrame
    \/ AggReadDate
    \/ AggCheck
    \/ AggPath
    \/ AggRead
    \/ AggTruncates
    \/ AggWrites

CycleSpec == InitCycle /\ [][CycleNext]_vars

\* the same with the longer series too, and Aggregation running on its own
InitWindow == InitOver(ShortInputs \cup LongInputs)

WindowNext ==
    \/ AggReadDate
    \/ AggCheck
    \/ AggPath
    \/ AggRead
    \/ AggTruncates
    \/ AggWrites

WindowSpec == InitWindow /\ [][WindowNext]_vars

\* ------------------------------------- aggregation cycles after a rollover
\* the last hour of day 0 with one sample for every second: a steady wind of
\* speed s from the east
FinalHour(s) ==
    [i \in 1 .. SecPerDay - HourStart |->
        Row(HourStart + i - 1, 90, s, u_comp(90, s), v_comp(90, s))]

\* what the first polls of day 1 append after the rollover: two samples, or
\* (the sensor fell silent at 00:00:00 for one second) the placeholder of
\* the went-off transition, the backfilled one and the sample that ended
\* the outage
NewDayRows(s) ==
    { <<Row(SecPerDay, 90, s, u_comp(90, s), v_comp(90, s)),
        Row(SecPerDay + 1, 90, s, u_comp(90, s), v_comp(90, s))>>,
      <<Blank(SecPerDay), Blank(SecPerDay),
        Row(SecPerDay + 1, 90, s, u_comp(90, s), v_comp(90, s))>> }

\* the wind speeds of the partitions with and without a carried-over hour
CarriedSpeeds == {2}
FreshSpeeds == {1, 2, 5}

\* Shortly after midnight.  Day 0 has a partition with a complete last hour.
\* Ingestion either ran through midnight (carried: create_csv and the
\* rollover of lines 297-319 have run on the partition of day 1) or was
\* started after it (no rollover: previous_date is day 1 from line 287); it
\* has appended its first rows of day 1 and is about to poll.  Aggregation
\* has been running since day 0.
InitCarry ==
    \E carried \in BOOLEAN :
    \E s \in (IF carried THEN CarriedSpeeds ELSE FreshSpeeds) :
    \E new \in NewDayRows(s) :
        LET prev == WriteCsv(Header, FinalHour(s))
            made == create_csv(NoFile, Header)
            rolled == IF carried THEN Carry(prev, made, 0) ELSE made
        IN /\ now = EndTick
           /\ program_start = IF carried THEN HourStart ELSE SecPerDay
           /\ lastFrameAt = 0 - 1
           /\ pc = "read"
           /\ previous_date = 1
           /\ current_date = 1
           /\ raw_data_path = 1
           /\ sensor_status_path = 1
           /\ raw_data = NoData
           /\ sensor_status = TRUE
           /\ sensor_off_timestamp = << >>
           /\ sensor_on_timestamp = << >>
           /\ duration = << >>
           /\ sensor_timestampoff = 0
           /\ sensor_off_count = 0
           /\ time_list = << >>
           /\ wind_direction = << >>
           /\ wind_speed = << >>
           /\ u_comp_list = << >>
           /\ v_comp_list = << >>
           /\ rawFiles = [d \in Days |-> IF d = 0 THEN prev ELSE AppendCsv(rolled, Header, new)]
           /\ sensorFiles = [d \in Days |-> FileOf(<<SensorHeader>>)]
           /\ new_day_df = << >>
           /\ apc = "date"
           /\ agg_current_date = 0
           /\ agg_previous_date = 0
           /\ raw_path = NoPath
           /\ mean_path = NoPath
           /\ df = << >>
           /\ meanFiles = [d \in Days |-> NoFile]
           /\ cycles = << >>
           /\ DisplayOff

CarryNext ==
    \/ AggReadDate
    \/ AggSlept
    \/ AggCheck
    \/ AggPath
    \/ AggRead
    \/ AggTruncates
    \/ AggWrites

CarrySpec == InitCarry /\ [][CarryNext]_vars


\* ================================================================== claims
\* the sample rows of a file: its lines that are not header lines
Samples(f) == SelectSeq(f.lines, LAMBDA l : ~l.hdr)

IsBlank(r) == r.dir = NaN /\ r.spd = NaN /\ r.U = NaN /\ r.V = NaN

\* the lines a step added at the end of raw partition d
Added(d) == SubSeq(rawFiles'[d].lines, Len(rawFiles[d].lines) + 1, Len(rawFiles'[d].lines))

\* one pass through lines 322-347: a poll of the serial line and what follows
\* it, to the end of the pass, to the line that raises or to the interrupt
PollStep == pc = "read" /\ now' # now

\* the records of the outage log, over all its daily files
LogCount == Len(Samples(sensorFiles[0])) + Len(Samples(sensorFiles[1]))

\* C1: in every raw partition, two consecutive samples stored by this run
\* have timestamps exactly one second apart (no second missing, none twice).
C1_NoGapNoDuplicate ==
    \A d \in Days :
        LET rows == Samples(rawFiles[d])
        IN \A i \in 1 .. Len(rows) - 1 :
              (rows[i].DateTime >= program_start /\ rows[i + 1].DateTime >= program_start)
                  => rows[i + 1].DateTime = rows[i].DateTime + 1

\* C2: when a well-formed frame ends an outage of D >= 1 whole seconds, the
\* rows flushed by that poll hold exactly D placeholders, stamped
\* offTimestamp, offTimestamp + 1, ..., offTimestamp + D - 1.
C2_Step ==
    (PollStep /\ sensor_status = FALSE /\ raw_data' \in GoodFrames
        /\ WholeSeconds(now' - sensor_timestampoff) >= 1)
    => LET D == WholeSeconds(now' - sensor_timestampoff)
           blanks == SelectSeq(Added(raw_data_path), IsBlank)
       IN /\ Len(blanks) = D
          /\ \A i \in 1 .. Len(blanks) :
                blanks[i].DateTime = FmtSec(sensor_timestampoff) + i - 1

\* C2: every step ends an outage of D whole seconds with exactly D placeholders.
C2_ExactlyDPlaceholders == [][C2_Step]_vars

\* C3: the tracker starts Online; a poll without a frame while Online makes
\* it Offline, a poll with a frame while Offline makes it Online, and no
\* other step changes sensor_status.
C3_Step ==
    /\ (PollStep /\ sensor_status = TRUE /\ raw_data' = NoData) => sensor_status' = FALSE
    /\ (PollStep /\ sensor_status = FALSE /\ raw_data' # NoData) => sensor_status' = TRUE
    /\ (sensor_status' # sensor_status)
          => (PollStep /\ (sensor_status = TRUE <=> raw_data' = NoData))

\* C3: the tracker starts Online and changes state only by the two transitions.
C3_TwoTransitions == (sensor_status = TRUE) /\ [][C3_Step]_vars

\* went Offline at least once and is Online again, after a flush
C3_Witness == sensor_status = TRUE /\ sensor_off_count >= 1 /\ pc = "stopped"

\* C4: at most one outage is open (an offTimestamp recorded without its
\* onTimestamp), and one is open exactly when the tracker is Offline.
C4_OneOpenOutage ==
    /\ Len(sensor_off_timestamp) <= 1
    /\ Len(sensor_off_timestamp) = 1 <=> sensor_status = FALSE
    /\ sensor_on_timestamp = << >>

\* a second outage is open
C4_Witness == sensor_status = FALSE /\ sensor_off_count >= 2 /\ Len(sensor_off_timestamp) = 1

\* C5: a poll that receives a frame while Offline appends exactly one record
\* (offTimestamp, onTimestamp, duration = instant on - instant off) to the
\* outage log; no other step appends a record; the log holds one record per
\* resolved outage.
C5_Step ==
    /\ (PollStep /\ sensor_status = FALSE /\ raw_data' # NoData)
          => /\ sensorFiles'[sensor_status_path].lines =
                    Append(sensorFiles[sensor_status_path].lines,
                           [hdr |-> FALSE,
                            off |-> FmtSec(sensor_timestampoff),
                            on |-> FmtSec(now'),
                            duration |-> now' - sensor_timestampoff])
             /\ \A d \in Days \ {sensor_status_path} : sensorFiles'[d] = sensorFiles[d]
    /\ ~(PollStep /\ sensor_status = FALSE /\ raw_data' # NoData)
          => \A d \in Days : Samples(sensorFiles'[d]) = Samples(sensorFiles[d])

C5_Count == LogCount = sensor_off_count - (IF sensor_status THEN 0 ELSE 1)

\* C5: one log record per resolved outage, appended by the poll that ends it.
C5_OneRecordPerOutage == [](C5_Count) /\ [][C5_Step]_vars

\* a resolved outage that did not last a whole number of seconds is in the log
C5_Witness ==
    \E d \in Days : \E i \in 1 .. Len(sensorFiles[d].lines) :
        /\ ~sensorFiles[d].lines[i].hdr
        /\ sensorFiles[d].lines[i].duration % TicksPerSec # 0
        /\ sensorFiles[d].lines[i].on > sensorFiles[d].lines[i].off


\* C6: a poll without a frame while the tracker is Offline changes neither
\* the tracker, nor the buffers, nor any raw partition, nor the outage log.
C6_Step ==
    (PollStep /\ sensor_status = FALSE /\ raw_data' = NoData)
    => UNCHANGED <<tracker, buffers, rawFiles, sensorFiles>>

\* C6: no step that misses a frame while Offline changes anything.
C6_OfflineMissIsNoOp == [][C6_Step]_vars

\* Offline for at least one more read timeout after the poll that went
\* Offline, the single placeholder still buffered
C6_Witness ==
    /\ sensor_status = FALSE
    /\ pc = "date"
    /\ raw_data = NoData
    /\ now >= sensor_timestampoff + ReadTimeout * TicksPerSec
    /\ time_list = <<FmtSec(sensor_timestampoff)>>

\* C7: a poll that receives a well-formed frame while Online adds exactly
\* one line to the raw partition: timestamp = second of receipt, direction =
\* field 1, speed = field 3; the other partitions, the outage log and the
\* tracker are unchanged, the tracker stays Online, nothing stays buffered
\* (a poll that no stop request cuts short).
C7_Step ==
    (PollStep /\ pc' \notin {"stopped", "failed"} /\ sensor_status = TRUE /\ raw_data' \in GoodFrames)
    => /\ Len(Added(raw_data_path)) = 1
       /\ SubSeq(rawFiles'[raw_data_path].lines, 1, Len(rawFiles[raw_data_path].lines))
              = rawFiles[raw_data_path].lines
       /\ ~Added(raw_data_path)[1].hdr
       /\ Added(raw_data_path)[1].DateTime = now' \div TicksPerSec
       /\ Added(raw_data_path)[1].dir = raw_data'[2].v
       /\ Added(raw_data_path)[1].spd = raw_data'[4].v
       /\ ~IsBlank(Added(raw_data_path)[1])
       /\ \A d \in Days \ {raw_data_path} : rawFiles'[d] = rawFiles[d]
       /\ UNCHANGED <<tracker, sensorFiles>>
       /\ sensor_status' = TRUE
       /\ time_list' = << >>
       /\ pc' = "date"

\* C7: every Online poll with a well-formed frame stores exactly that one sample.
C7_OnlineFrameAppendsOne == [][C7_Step]_vars

\* a frame was received and stored while the tracker had never left Online
C7_Witness ==
    /\ pc = "date"
    /\ raw_data \in GoodFrames
    /\ sensor_off_count = 0
    /\ raw_data_path # NoPath
    /\ \E i \in 1 .. Len(rawFiles[raw_data_path].lines) :
          /\ rawFiles[raw_data_path].lines[i].DateTime = now \div TicksPerSec
          /\ rawFiles[raw_data_path].lines[i].dir = raw_data[2].v
          /\ rawFiles[raw_data_path].lines[i].spd = raw_data[4].v

\* C8: a poll that receives an undecodable frame appends nothing to the raw
\* partition, does not take the tracker Offline, and the loop goes on to
\* the next poll.
C8_Step ==
    (PollStep /\ raw_data' \in BadFrames)
    => /\ UNCHANGED rawFiles
       /\ sensor_status' = TRUE
       /\ pc' = "date"

\* C8: every poll with an undecodable frame drops it and the loop goes on.
C8_BadFrameDropped == [][C8_Step]_vars

\* C9: every sample the ingestion loop appends itself (poll or shutdown
\* flush, not the rollover copy) goes to the partition of the date of its
\* own timestamp.
C9_Step ==
    (pc # "roll")
    => \A d \in Days : \A i \in 1 .. Len(Added(d)) :
          Added(d)[i].hdr \/ Added(d)[i].DateTime \div SecPerDay = d

\* C9: every appended sample lands in the partition of its own date.
C9_SampleInItsOwnPartition == [][C9_Step]_vars

\* C10: a rollover leaves the new partition as header, then the previous
\* partition's samples of hour 23 of previousDate in their order, then the
\* samples the new partition held before, in their order; the previous
\* partition is not changed.
C10_Step ==
    (pc = "roll" /\ pc' = "read" /\ current_date # previous_date)
    => LET prev == Samples(rawFiles[previous_date])
           kept == SelectSeq(prev, LAMBDA r :
                       /\ r.DateTime \div SecPerDay = previous_date
                       /\ (r.DateTime % SecPerDay) \div 3600 = 23)
       IN /\ Samples(rawFiles'[raw_data_path]) = kept \o Samples(rawFiles[raw_data_path])
          /\ Len(rawFiles'[raw_data_path].lines) = 1 + Len(Samples(rawFiles'[raw_data_path]))
          /\ rawFiles'[previous_date] = rawFiles[previous_date]
          /\ raw_data_path = current_date

\* C10: every rollover writes carried-over hour, then the earlier new-day samples.
C10_RolloverCarriesLastHour == [][C10_Step]_vars

\* right after a rollover: the new partition holds carried-over samples
\* followed by a new-day sample that was written before the rollover, and
\* the previous partition holds a sample older than 23:00:00 that stayed behind
C10_Witness ==
    /\ pc = "read"
    /\ previous_date = 1
    /\ raw_data_path = 1
    /\ now = Midnight + 1
    /\ LET new == Samples(rawFiles[1])
       IN /\ Len(new) >= 3
          /\ new[1].DateTime = HourStart
          /\ new[Len(new) - 1].DateTime < SecPerDay
          /\ new[Len(new)].DateTime = SecPerDay
    /\ \E i \in 1 .. Len(rawFiles[0].lines) :
          ~rawFiles[0].lines[i].hdr /\ rawFiles[0].lines[i].DateTime = HourStart - 1

\* ---------------------------------------------------------------- C11
\* a step that enters the rollover block (line 300 true) and comes out of it
C11_Rolled == pc = "roll" /\ pc' = "read" /\ current_date # previous_date

C11_Step ==
    /\ previous_date' # previous_date =>
          /\ C11_Rolled
          /\ previous_date' = current_date
          /\ previous_date' > previous_date
    /\ C11_Rolled =>
          /\ previous_date' = current_date
          /\ rawFiles' = [rawFiles EXCEPT ![raw_data_path] =
                             Carry(rawFiles[previous_date], @, previous_date)]
    /\ (pc = "roll" /\ pc' = "read" /\ current_date = previous_date) => UNCHANGED rawFiles

\* once past line 319 the loop polls with the new date recorded, so the block
\* is not entered again for it
C11_Recorded == (pc = "read") => (previous_date = current_date)

\* C11: the rollover block runs once for each advance of the date the loop
\* observes: previous_date moves only in a step through the block, to the
\* (later) date just read, in the first iteration whose line 293 read the new
\* date; an iteration that read the same date rewrites nothing; tracker
\* state plays no part.
C11_RolloverOncePerDate == [](C11_Recorded) /\ [][C11_Step]_vars

\* the rollover has just been done for day 1 with the tracker Offline: the
\* outage was detected by the poll that ran into midnight
C11_Witness ==
    /\ pc = "read"
    /\ previous_date = 1
    /\ sensor_status = FALSE
    /\ now = sensor_timestampoff
    /\ Len(Samples(rawFiles[1])) >= 1

\* ---------------------------------------------------------------- C12
C12_Step ==
    (/\ pc = "roll"
     /\ current_date # previous_date
     /\ ~rawFiles[previous_date].exists
     /\ pc' # pc)
    => (pc' = "read" /\ UNCHANGED rawFiles)

\* C12: when the previous day's raw partition is missing at rollover, the
\* block is skipped: the new partition stays as it was and the loop goes on
\* to poll.
C12_MissingPreviousSkipped == [][C12_Step]_vars

\* ---------------------------------------------------------------- C13
C13_Step ==
    (pc = "read" /\ pc' = "rolled again")
    => rawFiles'[raw_data_path] = rawFiles[raw_data_path]

C14_Due == dpc = "get_data" /\ attempt < max_retry /\ dpc' # dpc

C14_Step ==
    /\ (C14_Due /\ ReadOutcome(meanFiles[path]) = "DataFrame") =>
          /\ dpc' = "returned"
          /\ mean_df' = DataFrame(ReadCsv(meanFiles[path]))
          /\ mean_df' # None
    /\ (C14_Due /\ ReadOutcome(meanFiles[path]) \in {"FileNotFoundError", "EmptyDataError"}) =>
          /\ dpc' = "sleep"
          /\ attempt' = attempt + 1
    /\ (dpc = "sleep" /\ dpc' # dpc) => (dpc' = "get_data" /\ attempt' = attempt)

\* C14: attempt counts the failed attempts so far; while it is below
\* max_retry a failed attempt (file missing or empty) is followed, after the
\* sleep, by another attempt, and an attempt that finds the file readable
\* (the k-th, k <= max_retry) returns the rows it read, not None.
C14_ReadableOnAttemptK == [][C14_Step]_vars

\* missing or empty for 3 attempts, read on the 4th, max_retry = 5
C14_Witness ==
    /\ dpc = "returned"
    /\ max_retry = 5
    /\ attempt = 3
    /\ mean_df = DataFrame(<<MeanRow(SecPerDay - SecPerMin)>>)

\* ---------------------------------------------------------------- C15
C15_Bounded ==
    /\ attempt <= max_retry
    /\ (mean_df = None /\ dpc = "returned") => attempt = max_retry
    /\ dpc = "raised" => mean_df = None

C15_Step ==
    /\ (dpc = "get_data" /\ dpc' = "sleep") => attempt < max_retry
    /\ (dpc = "get_data" /\ attempt >= max_retry /\ dpc' # dpc) =>
          /\ dpc' = "returned"
          /\ mean_df' = None
          /\ mean_df'.kind # "DataFrame"

C15_Done == dpc \in {"returned", "raised"}

\* C15: get_data reads the file at most max_retry times and comes to an end;
\* after max_retry failed attempts it returns None, which is not a frame and
\* is returned rather than raised.
C15_BoundedAndExhausted == [](C15_Bounded) /\ [][C15_Step]_vars /\ <>(C15_Done)

\* every attempt failed and None came back
C15_Witness ==
    /\ dpc = "returned"
    /\ mean_df = None
    /\ attempt = max_retry
    /\ max_retry = MaxRetry
    /\ ~meanFiles[path].exists

\* ---------------------------------------------------------------- C16
\* the file is there and holds a line read_csv cannot tokenize
C16_Unreadable ==
    /\ meanFiles[path].exists
    /\ \E i \in 1 .. Len(meanFiles[path].lines) : meanFiles[path].lines[i] = Garbled

C16_Step ==
    /\ (C14_Due /\ C16_Unreadable) =>
          /\ dpc' = "raised"
          /\ UNCHANGED <<attempt, mean_df>>
    /\ dpc = "raised" => dpc' = "raised"

\* C16: an attempt on which read_csv raises anything but the two handled
\* errors leaves get_data at once: the counter is not advanced, no sleep
\* follows and no later attempt is made.
C16_OtherErrorSurfaced == [][C16_Step]_vars

\* the error came up on a later attempt, after retries
C16_Witness ==
    /\ dpc = "raised"
    /\ attempt >= 1
    /\ C16_Unreadable

\* ---------------------------------------------------------------- C17
C17_Step ==
    (dpc = "returned" /\ mean_df = None /\ dpc' # dpc) => dpc' = "date"

\* C17: when get_data has run out of attempts on the aggregate partition the
\* display's loop goes on to its next pass, where it polls the file again.
C17_ExhaustedKeepsPolling == [][C17_Step]_vars

\* ---------------------------------------------------------------- C18
C18_Step ==
    (apc = "check" /\ ~rawFiles[raw_path].exists /\ apc' # apc)
    => apc' \notin {"exited", "crashed"}

\* C18: when the raw partition of the current date does not exist at the
\* start of an aggregation cycle the aggregation process stays alive.
C18_MissingRawKeepsPolling == [][C18_Step]_vars

\* ---------------------------------------------------------------- C19
C19_Step ==
    /\ (/\ apc = "read"
        /\ pc = "rewrite"
        /\ raw_path = raw_data_path
        /\ apc' # apc)
       => apc' \notin {"exited", "crashed"}
    /\ (/\ dpc = "get_data"
        /\ attempt < max_retry
        /\ apc = "write"
        /\ path = mean_path
        /\ dpc' # dpc)
       => dpc' = "sleep"

\* C19: a reader that reads a partition between the truncation and the write
\* of its writer's rewrite (rollover on the raw partition, an aggregation
\* cycle on the aggregate partition) goes on running: the aggregation
\* process does not end on it, get_data sleeps and tries again.
C19_MidRewriteReadSurvives == [][C19_Step]_vars

\* ---------------------------------------------------------------- C20
\* C20: every row of the aggregate partition named for date d carries a
\* timestamp of date d.
C20_RowsOnFileDate ==
    \A d \in Days : \A i \in 1 .. Len(meanFiles[d].lines) :
        ~meanFiles[d].lines[i].hdr => DateOfSec(meanFiles[d].lines[i].DateTime) = d


C22_UpToDate ==
    /\ apc = "date"
    /\ cycles # << >>
    /\ cycles[Len(cycles)].df = ReadCsv(rawFiles[raw_path])

\* C22: once a cycle has read the raw partition with the backfilled
\* placeholders in it, the aggregate partition has a row for the minute of
\* every raw row, those inside the outage included, and a minute made of
\* placeholders alone carries no speed and no gust.
C22_BackfillReflected ==
    C22_UpToDate =>
        LET raw == ReadCsv(rawFiles[raw_path])
            out == ReadCsv(meanFiles[mean_path])
        IN \A i \in 1 .. Len(raw) :
              \E k \in 1 .. Len(out) :
                  /\ out[k].DateTime = MinuteOf(raw[i].DateTime)
                  /\ OnlyPlaceholders(raw, out[k].DateTime)
                        => (out[k].ws_1min = NaN /\ out[k].gst_1min = NaN)

\* an earlier cycle read the partition before the backfill, the last one
\* after it, and a minute lies wholly inside the outage
C22_Witness ==
    /\ C22_UpToDate
    /\ Len(cycles[1].df) < Len(cycles[Len(cycles)].df)
    /\ \E k \in 1 .. Len(ReadCsv(meanFiles[mean_path])) :
           /\ OnlyPlaceholders(ReadCsv(rawFiles[raw_path]), ReadCsv(meanFiles[mean_path])[k].DateTime)
           /\ \A j \in 1 .. Len(cycles[1].rows) :
                  cycles[1].rows[j].DateTime # ReadCsv(meanFiles[mean_path])[k].DateTime


\* ------------------------------------------------------------------- C23
\* the raw rows stamped within the window seconds that end with minute m
C23_Trailing(raw, m, window) ==
    { i \in 1 .. Len(raw) :
        /\ raw[i].DateTime <= m + SecPerMin - 1
        /\ raw[i].DateTime > m + SecPerMin - 1 - window }

\* C23: in what a cycle wrote, the 10-minute mean speed of a minute is
\* present whenever the partition holds a full window of rows up to that
\* minute and the trailing 10 minutes hold a present sample; absent samples
\* in the window do not make it absent.
C23_AbsentSamplesExcluded ==
    \A c \in 1 .. Len(cycles) : \A k \in 1 .. Len(cycles[c].rows) :
        LET raw == cycles[c].df
            m == cycles[c].rows[k].DateTime
        IN (/\ Cardinality({ i \in 1 .. Len(raw) : raw[i].DateTime <= m + SecPerMin - 1 }) >= Window10min
            /\ \E i \in C23_Trailing(raw, m, Window10min) : raw[i].spd # NaN)
               => cycles[c].rows[k].ws_10min # NaN


\* ------------------------------------------------------------------- C24
\* C24: in what a cycle wrote, a minute of the current date whose raw rows
\* are all placeholders has no 1-minute direction and no 1-minute mean speed
\* (not the 0 that placeholders counted as zeros would give), and a cycle
\* over such a partition does not end the process.
C24_OutageBucketAbsent ==
    /\ \A c \in 1 .. Len(cycles) : \A k \in 1 .. Len(cycles[c].rows) :
           OnlyPlaceholders(cycles[c].df, cycles[c].rows[k].DateTime)
               => (cycles[c].rows[k].wd_1min = NaN /\ cycles[c].rows[k].ws_1min = NaN)
    /\ (\E i \in 1 .. Len(df) : OnlyPlaceholders(df, MinuteOf(df[i].DateTime)))
           => apc \notin {"crashed", "exited"}

\* a cycle has written a minute made of placeholders alone next to a minute
\* with a mean speed
C24_Witness ==
    \E c \in 1 .. Len(cycles) : \E k, j \in 1 .. Len(cycles[c].rows) :
        /\ OnlyPlaceholders(cycles[c].df, cycles[c].rows[k].DateTime)
        /\ cycles[c].rows[k].ws_1min = NaN
        /\ cycles[c].rows[j].ws_1min # NaN


\* ------------------------------------------------------------------- C25
\* the averaged component col of minute m over the given window (1 for the
\* 1-minute column), as the cycle computes it from the raw rows
C25_Mean(raw, col, window, m) ==
    LET a == IF window = 1
             THEN resample_mean(raw, Column(raw, col), 1)
             ELSE roll_avg(raw, Column(raw, col), window)
        b == CHOOSE i \in 1 .. Len(Resample(raw)) : Resample(raw)[i].DateTime = m
    IN a[b]

C25_Calm(raw, window, m) ==
    C25_Mean(raw, "U", window, m) = 0 /\ C25_Mean(raw, "V", window, m) = 0

\* C25: in what a cycle wrote, a minute whose averaged components are both 0
\* for a window has no direction for that window.
C25_CalmDirectionAbsent ==
    \A c \in 1 .. Len(cycles) : \A k \in 1 .. Len(cycles[c].rows) :
        LET raw == cycles[c].df
            r == cycles[c].rows[k]
        IN /\ C25_Calm(raw, 1, r.DateTime) => r.wd_1min = NaN
           /\ C25_Calm(raw, Window10min, r.DateTime) => r.wd_10min = NaN
           /\ C25_Calm(raw, Window1hour, r.DateTime) => r.wd_1hour = NaN

\* a cycle has written a minute that is calm over one minute and over ten,
\* with a mean speed of 0 and no direction
C25_Witness ==
    \E c \in 1 .. Len(cycles) : \E k \in 1 .. Len(cycles[c].rows) :
        /\ C25_Calm(cycles[c].df, 1, cycles[c].rows[k].DateTime)
        /\ C25_Calm(cycles[c].df, Window10min, cycles[c].rows[k].DateTime)
        /\ cycles[c].rows[k].ws_1min = 0
        /\ cycles[c].rows[k].ws_10min = 0
        /\ cycles[c].rows[k].wd_10min = NaN


\* ------------------------------------------------------------------- C26
\* the averaged components of minute m over the window are u = 5, v = 0
C26_FiveNought(raw, window, m) ==
    C25_Mean(raw, "U", window, m) = 5 * Scale /\ C25_Mean(raw, "V", window, m) = 0

\* C26 as stated: in what a cycle wrote, a minute whose averaged components
\* are u = 5 and v = 0 for a window has the direction 270 for that window.
C26_FiveNoughtIs270 ==
    \A c \in 1 .. Len(cycles) : \A k \in 1 .. Len(cycles[c].rows) :
        LET raw == cycles[c].df
            r == cycles[c].rows[k]
        IN /\ C26_FiveNought(raw, 1, r.DateTime) => r.wd_1min = 270
           /\ C26_FiveNought(raw, Window10min, r.DateTime) => r.wd_10min = 270
           /\ C26_FiveNought(raw, Window1hour, r.DateTime) => r.wd_1hour = 270

\* C26 as amended: in what a cycle wrote, a minute whose averaged components
\* are u = 5 and v = 0 for a window has the direction 180 for that window
\* (u is the south-to-north component: the wind is from the south).
C26_FiveNoughtIs180 ==
    \A c \in 1 .. Len(cycles) : \A k \in 1 .. Len(cycles[c].rows) :
        LET raw == cycles[c].df
            r == cycles[c].rows[k]
        IN /\ C26_FiveNought(raw, 1, r.DateTime) => r.wd_1min = 180
           /\ C26_FiveNought(raw, Window10min, r.DateTime) => r.wd_10min = 180
           /\ C26_FiveNought(raw, Window1hour, r.DateTime) => r.wd_1hour = 180

\* a cycle has written a minute with u = 5, v = 0 over one minute and over
\* ten, read from rows that ingestion stored for direction 180
C26_Witness ==
    \E c \in 1 .. Len(cycles) : \E k \in 1 .. Len(cycles[c].rows) :
        /\ C26_FiveNought(cycles[c].df, 1, cycles[c].rows[k].DateTime)
        /\ C26_FiveNought(cycles[c].df, Window10min, cycles[c].rows[k].DateTime)
        /\ cycles[c].rows[k].wd_10min = 180
        /\ \A i \in 1 .. Len(cycles[c].df) : cycles[c].df[i].dir = 180


\* ------------------------------------------------------------------- C27
\* the per-minute maximum of the rolling maximum of the gust base over the
\* trailing n rows, for minute m
C27_Gust(raw, n, m) ==
    LET a == roll_gust(raw, gust_base(Column(raw, "spd")), n)
        b == CHOOSE i \in 1 .. Len(Resample(raw)) : Resample(raw)[i].DateTime = m
    IN a[b]

\* C27: in what a cycle wrote, each of the three gusts of a minute is the
\* per-minute maximum of the rolling maximum of the gust base over N rows,
\* with N = 60 for the 1-minute gust, 600 for the 10-minute gust and 3600
\* for the 60-minute gust.
C27_GustByWindow ==
    \A c \in 1 .. Len(cycles) : \A k \in 1 .. Len(cycles[c].rows) :
        LET raw == cycles[c].df
            r == cycles[c].rows[k]
        IN /\ r.gst_1min = C27_Gust(raw, SecPerMin, r.DateTime)
           /\ r.gst_10min = C27_Gust(raw, Window10min, r.DateTime)
           /\ r.gst_1hour = C27_Gust(raw, Window1hour, r.DateTime)


\* ------------------------------------------------------------------- C28
\* the 3-second-smoothed speeds of the raw rows stamped within the window
\* seconds up to the first second of minute m, or within minute m
C28_Underlying(raw, window, m) ==
    LET base == gust_base(Column(raw, "spd"))
    IN { base[i] : i \in { j \in 1 .. Len(raw) :
                              /\ raw[j].DateTime > m - window
                              /\ raw[j].DateTime <= m + SecPerMin - 1
                              /\ base[j] # NaN } }

C28_Within(gust, S) ==
    gust # NaN => (/\ S # {}
                   /\ \E lo \in S : lo <= gust
                   /\ \E hi \in S : hi >= gust)

\* C28: in what a cycle wrote, a gust that is present lies between the least
\* and the greatest 3-second-smoothed speed of the trailing 60, 600 or 3600
\* seconds that underlie its minute.
C28_GustWithinWindow ==
    \A c \in 1 .. Len(cycles) : \A k \in 1 .. Len(cycles[c].rows) :
        LET raw == cycles[c].df
            r == cycles[c].rows[k]
        IN /\ C28_Within(r.gst_1min, C28_Underlying(raw, SecPerMin, r.DateTime))
           /\ C28_Within(r.gst_10min, C28_Underlying(raw, Window10min, r.DateTime))
           /\ C28_Within(r.gst_1hour, C28_Underlying(raw, Window1hour, r.DateTime))


\* ------------------------------------------------------------------- C29
\* the rows of minute m that have n rows up to them, none without a speed
C29_Averaged(raw, n, m) ==
    { i \in InBin(raw, m) : i >= n /\ \A j \in i - n + 1 .. i : raw[j].spd # NaN }

RECURSIVE C29_Total(_, _, _)
\* the sum over the rows i in I of the sum of the n speeds up to row i
C29_Total(raw, n, I) ==
    IF I = {} THEN 0
    ELSE LET i == CHOOSE k \in I : TRUE
         IN SumRange(Column(raw, "spd"), i - n + 1, i) + C29_Total(raw, n, I \ {i})

\* stage one, the moving average of the speed over the n rows up to each row;
\* stage two, the mean of those averages over the rows of minute m
C29_TwoStage(raw, n, m) ==
    LET I == C29_Averaged(raw, n, m)
    IN IF I = {} THEN NaN ELSE Round4(C29_Total(raw, n, I), n * Cardinality(I))

\* the plain mean of the speeds of minute m
C29_BlockMean(raw, m) == C29_TwoStage(raw, 1, m)

C30_ShutdownFlushes ==
    /\ pc # "failed"
    /\ pc = "stopped" =>
          /\ time_list = << >>
          /\ wind_direction = << >>
          /\ wind_speed = << >>
          /\ u_comp_list = << >>
          /\ v_comp_list = << >>

\* ------------------------------------------------------------------- C31
\* date d has ended at tick t
C31_Ended(d, t) == t >= (d + 1) * SecPerDay * TicksPerSec

C31_Step ==
    \A d \in Days :
        C31_Ended(d, now') => (rawFiles'[d] = rawFiles[d] /\ meanFiles'[d] = meanFiles[d])

\* C31: no step taken once date d has ended changes the raw partition or the
\* aggregate partition of date d.
C31_ClosedPartitionUntouched == [][C31_Step]_vars

\* ------------------------------------------------------------------- C32
\* the last completed cycle wrote the aggregate partition of date d from the
\* raw partition of date d as it is now
C32_Fresh(d) ==
    /\ apc = "date"
    /\ cycles # << >>
    /\ mean_path = d
    /\ raw_path = d
    /\ cycles[Len(cycles)].date = d
    /\ CanRead(rawFiles[d])
    /\ cycles[Len(cycles)].df = ReadCsv(rawFiles[d])

\* the minutes from that of the earliest to that of the latest row
C32_Span(rows) ==
    LET ts == { rows[i].DateTime : i \in 1 .. Len(rows) }
        first == CHOOSE t \in ts : \A s \in ts : t <= s
        last == CHOOSE t \in ts : \A s \in ts : t >= s
    IN IF ts = {} THEN {}
       ELSE { m \in first - SecPerMin + 1 .. last : m % SecPerMin = 0 }

\* C32: the records of an aggregate partition are stamped with whole minutes,
\* each one minute after the one before it (so no minute twice, none left
\* out), and once a cycle has written the partition of date d from the raw
\* partition of date d, every minute from the earliest to the latest raw
\* sample of date d has exactly one record, with or without present data.
C32_OneRecordPerMinute ==
    \A d \in Days :
        LET out == Samples(meanFiles[d])
            raw == OnDate(Samples(rawFiles[d]), d)
        IN /\ \A k \in 1 .. Len(out) : out[k].DateTime % SecPerMin = 0
           /\ \A k \in 1 .. Len(out) - 1 : out[k + 1].DateTime = out[k].DateTime + SecPerMin
           /\ C32_Fresh(d) =>
                 \A m \in C32_Span(raw) :
                     Cardinality({ k \in 1 .. Len(out) : out[k].DateTime = m }) = 1

\* a cycle has written three records or more, one of them for a minute that
\* holds placeholders alone
C32_Witness ==
    /\ C32_Fresh(0)
    /\ Len(Samples(meanFiles[0])) >= 3
    /\ \E k \in 1 .. Len(Samples(meanFiles[0])) :
           /\ OnlyPlaceholders(ReadCsv(rawFiles[0]), Samples(meanFiles[0])[k].DateTime)
           /\ Samples(meanFiles[0])[k].ws_1min = NaN

\* ------------------------------------------------------------------- C33
\* the rows a cycle read begin with the carried-over hour of day 0, one
\* present sample for every second of 23:00:00 - 23:59:59, and go on with
\* rows of day 1
C33_HourCarried(raw) ==
    /\ Len(raw) > SecPerDay - HourStart
    /\ \A i \in 1 .. Len(raw) :
           IF i <= SecPerDay - HourStart
           THEN raw[i].DateTime = HourStart + i - 1 /\ raw[i].spd # NaN
           ELSE DateOfSec(raw[i].DateTime) = 1

\* the rows a cycle read are all of day 1
C33_NothingCarried(raw) == \A i \in 1 .. Len(raw) : DateOfSec(raw[i].DateTime) = 1

\* C33: in what a cycle wrote for day 1, the record of minute 00:00 has a
\* 10-minute and a 60-minute mean speed when the partition it read begins
\* with the complete carried-over hour of day 0, and has neither when the
\* partition holds no carried-over row.
C33_FirstMinuteAfterRollover ==
    \A c \in 1 .. Len(cycles) : \A k \in 1 .. Len(cycles[c].rows) :
        (cycles[c].date = 1 /\ cycles[c].rows[k].DateTime = SecPerDay)
        => /\ C33_HourCarried(cycles[c].df)
                 => (cycles[c].rows[k].ws_10min # NaN /\ cycles[c].rows[k].ws_1hour # NaN)
           /\ C33_NothingCarried(cycles[c].df)
                 => (cycles[c].rows[k].ws_10min = NaN /\ cycles[c].rows[k].ws_1hour = NaN)

\* ------------------------------------------------------------------- C34
\* C34: every raw partition that exists begins with the header line and
\* holds no other header line.
C34_HeaderOnceFirst ==
    \A d \in Days :
        rawFiles[d].exists
        => /\ Len(rawFiles[d].lines) >= 1
           /\ rawFiles[d].lines[1] = Header
           /\ \A i \in 2 .. Len(rawFiles[d].lines) : ~rawFiles[d].lines[i].hdr

\* the partition of day 1 was created, rewritten by a rollover that carried
\* a row over, and appended to by the flush of a backfilled outage
C34_Witness ==
    /\ previous_date = 1
    /\ rawFiles[1].exists
    /\ Len(rawFiles[1].lines) >= 4
    /\ rawFiles[1].lines[2].DateTime < SecPerDay
    /\ \E i \in 2 .. Len(rawFiles[1].lines) - 1 :
           /\ IsBlank(rawFiles[1].lines[i])
           /\ ~IsBlank(rawFiles[1].lines[i + 1])

\* ------------------------------------------------------------------- C35
\* C35: in every raw partition the rows are in non-decreasing order of
\* their timestamps.
C35_RowsInTimeOrder ==
    \A d \in Days :
        LET rows == Samples(rawFiles[d])
        IN \A i \in 1 .. Len(rows) - 1 : rows[i].DateTime <= rows[i + 1].DateTime


\* the partition of day 1 holds a carried-over row, right after it the
\* placeholders of an outage of two seconds or more, and last the sample
\* that ended the outage
C35_Witness ==
    LET rows == Samples(rawFiles[1])
    IN \E i \in 1 .. Len(rows) - 3 :
          /\ rows[i].DateTime < SecPerDay
          /\ IsBlank(rows[i + 1]) /\ rows[i + 1].DateTime >= SecPerDay
          /\ IsBlank(rows[Len(rows) - 1]) /\ rows[Len(rows) - 1].DateTime > rows[i + 1].DateTime
          /\ ~IsBlank(rows[Len(rows)]) /\ rows[Len(rows)].DateTime > rows[Len(rows) - 1].DateTime


\* ------------------------------------------------------------------- C36
\* a step in which update_data is called: at the end of a poll that decoded
\* a frame (line 346), or by the handler of a stop request (line 350) once
\* raw_data_path is bound
C36_Flush ==
    /\ raw_data_path # NoPath
    /\ \/ PollStep /\ raw_data' \in GoodFrames
       \/ Running /\ pc' \in {"stopped", "failed"}

C36_Step ==
    C36_Flush
    => /\ pc' # "failed"
       /\ time_list' = << >>
       /\ wind_direction' = << >>
       /\ wind_speed' = << >>
       /\ u_comp_list' = << >>
       /\ v_comp_list' = << >>

\* C36: every flush finds the five buffers of one length, so that it can
\* write them as rows, and leaves all five empty.
C36_FlushWholeRowsOnce == [][C36_Step]_vars


\* ------------------------------------------------------------------- C37
\* a step taken while the tracker is Offline that neither receives a frame
\* nor shuts the process down
C37_DuringOutage ==
    /\ sensor_status = FALSE
    /\ ~(PollStep /\ raw_data' # NoData)
    /\ pc' \notin {"stopped", "failed"}

\* the placeholder of the open outage is in the buffer, and stays there
C37_PlaceholderBuffered ==
    /\ time_list = <<FmtSec(sensor_timestampoff)>>
    /\ UNCHANGED buffers

C37_StepAsStated == C37_DuringOutage => (C37_PlaceholderBuffered /\ UNCHANGED rawFiles)

\* C37 as stated: no step taken during an outage writes to a raw partition,
\* and the placeholder of the outage stays in the buffer.
C37_NothingWrittenOffline == [][C37_StepAsStated]_vars

C37_Step ==
    C37_DuringOutage
    => /\ C37_PlaceholderBuffered
       /\ pc \notin {"path", "roll"} => UNCHANGED rawFiles
       /\ pc = "path" =>
             \A d \in Days :
                 rawFiles'[d] = rawFiles[d]
                    \/ (~rawFiles[d].exists /\ rawFiles'[d] = FileOf(<<Header>>))
       /\ pc = "roll" =>
             \A d \in Days : \A i \in 1 .. Len(rawFiles'[d].lines) :
                 \E e \in Days : \E j \in 1 .. Len(rawFiles[e].lines) :
                     rawFiles'[d].lines[i] = rawFiles[e].lines[j]

\* C37 as amended: during an outage the placeholder stays in the buffer and
\* no poll writes to a raw partition; the only writes are the creation of
\* the partition of a new date (header alone) and the rollover, which
\* copies rows that were on disk already.
C37_OnlyDateChangeWritesOffline == [][C37_Step]_vars

\* an outage that began before the date changed is still open after the
\* rollover, its placeholder still in the buffer
C37_Witness ==
    /\ sensor_status = FALSE
    /\ pc = "read"
    /\ previous_date = 1
    /\ Today(sensor_timestampoff) = 1
    /\ time_list = <<FmtSec(sensor_timestampoff)>>
    /\ Len(rawFiles[1].lines) >= 2
    /\ \A i \in 1 .. Len(rawFiles[1].lines) : rawFiles[1].lines[i].hdr \/ ~IsBlank(rawFiles[1].lines[i])


\* ------------------------------------------------------------------- C38
\* a stop request that arrives while the tracker is Offline ends the process
\* with one more line in the raw partition, the placeholder stamped
\* offTimestamp, and nothing more in the outage log
C38_Step ==
    (Running /\ sensor_status = FALSE /\ now' = now /\ pc' \in {"stopped", "failed"})
    => /\ pc' = "stopped"
       /\ sensor_status' = FALSE
       /\ sensorFiles' = sensorFiles
       /\ Added(raw_data_path) = <<Blank(FmtSec(sensor_timestampoff))>>
       /\ \A d \in Days \ {raw_data_path} : rawFiles'[d] = rawFiles[d]

\* Samples counts the lines of the daily files of the outage log: the open
\* outage is not among them, and no raw partition holds a row stamped after
\* offTimestamp nor a second row stamped offTimestamp
C38_Stopped ==
    (pc = "stopped" /\ sensor_status = FALSE)
    => /\ LogCount = sensor_off_count - 1
       /\ \A d \in Days : \A i \in 1 .. Len(sensorFiles[d].lines) :
              sensorFiles[d].lines[i].hdr
                 \/ sensorFiles[d].lines[i].off # FmtSec(sensor_timestampoff)
       /\ rawFiles[raw_data_path].lines[Len(rawFiles[raw_data_path].lines)]
              = Blank(FmtSec(sensor_timestampoff))
       /\ \A d \in Days :
              Cardinality({ i \in 1 .. Len(rawFiles[d].lines) :
                              /\ ~rawFiles[d].lines[i].hdr
                              /\ rawFiles[d].lines[i].DateTime >= FmtSec(sensor_timestampoff) })
                 = IF d = raw_data_path THEN 1 ELSE 0

\* C38: a process stopped while Offline leaves the open outage out of the
\* outage log and without backfill: its raw partition ends with the one
\* placeholder stamped offTimestamp, and no row is stamped later.
C38_OpenOutageLeftOpen == [](C38_Stopped) /\ [][C38_Step]_vars

\* stopped a second or more into an outage, after an earlier outage that
\* was recorded
C38_Witness ==
    /\ pc = "stopped"
    /\ sensor_status = FALSE
    /\ now >= sensor_timestampoff + TicksPerSec
    /\ sensor_off_count >= 2

====
